---- MODULE Spec2Model ----
(***************************************************************************)
(* Session Lifecycle Engine of wasap-api: the durable session lock         *)
(* (whatsapp.lock.repository.ts), the session/credential rows              *)
(* (whatsapp.prisma.repository.ts) and the session supervisor              *)
(* (whatsapp.service.ts), as a state machine.                              *)
(*                                                                         *)
(* Every `await` of the service is a suspension point: a call, a connect   *)
(* attempt or an event handler is a task with a position (pc), and one     *)
(* action is the code that runs between two suspension points together     *)
(* with the store operation the task was suspended on.                     *)
(***************************************************************************)
EXTENDS Integers, FiniteSets, Sequences, TLC

VARIABLES
  now,          \* wall clock in ms (new Date())
  locks,        \* table WhatsappSessionLock: set of rows
  lockOp,       \* per process: an acquire() that has read the clock, not yet run its transaction
  lastAcquire,  \* outcome of the last acquire() transaction (observation)
  lastWrite,    \* the last touch / release / releaseAll and who called it (observation)
  apiKeys,      \* table ApiKey: set of rows
  req,          \* requests to the ApiKeys service and the admin routes
  store,        \* tables WhatsappSession.creds and WhatsappCredential of all sessions, and the repository calls on them
  random,       \* Math.floor(Math.random() * 500) of the next scheduleReconnect
  app,          \* per process: App / main.ts life cycle (start, warm-up, cleanup callbacks, exit)
  row,          \* table WhatsappSession: the row of the service key
  dbKeys,       \* table WhatsappCredential: keyIds stored for the session
  sessions,     \* per process: Map<string, ManagedSession> entry of the service key
  retry,        \* per process: msgRetryCounterCache['reconnect:<apiKey>']
  obj,          \* ManagedSession objects (live on in closures after sessions.delete)
  conn,         \* connect attempts and the sockets they construct
  call,         \* invocations of the public service operations
  sse           \* WhatsappSseService: the subscribers per apiKey and what they were written

vars == <<now, locks, lockOp, lastAcquire, lastWrite, apiKeys, req, store, random, app,
          row, dbKeys, sessions, retry, obj, conn, call, sse>>

\* what the supervisor and the lock repository never write
sideVars == <<req, store, random, app>>

svcVars == <<apiKeys, sideVars, row, dbKeys, sessions, retry, obj, conn, call, sse>>

----------------------------------------------------------------------------
\* Bounds of the model
MaxTicks == 2

\* Processes (lockOwnerId = `${hostname()}-${process.pid}`) and tenant keys
Procs == {"p1", "p2"}
Keys == {"k1", "k2"}
None == "none"

lockOwnerId(p) == p

\* private readonly lockTtlMs = 5 * 60 * 1000
lockTtlMs == 5 * 60 * 1000

\* The clock advances in steps of three minutes: a row is fresh one step
\* after it was written and stale two steps after.
TickMs == 3 * 60 * 1000

Tick ==
  /\ now < MaxTicks * TickMs
  /\ now' = now + TickMs

----------------------------------------------------------------------------
\* PrismaWhatsappLockRepository

LockRow(apiKey, ownerId, acquiredAt) ==
  [apiKey |-> apiKey, ownerId |-> ownerId, acquiredAt |-> acquiredAt]

\* tx.whatsappSessionLock.findUnique({ where: { apiKey } })
findUnique(rows, apiKey) == {r \in rows : r.apiKey = apiKey}

\* the spec's staleness: now - acquiredAt > TTL
IsStale(r, t) == t - r.acquiredAt > lockTtlMs

\* A plausible slip: the staleness test dropped, any foreign row is taken over.
acquireNoTtl(rows, apiKey, ownerId, ttlMs, t) ==
  [ok |-> TRUE,
   rows |-> (rows \ findUnique(rows, apiKey)) \cup {LockRow(apiKey, ownerId, t)}]

\* acquire(apiKey, ownerId, ttlMs): the body of the transaction, with `t` the
\* clock value read before the transaction started.
acquire(rows, apiKey, ownerId, ttlMs, t) ==
  LET staleBefore == t - ttlMs
      found == findUnique(rows, apiKey)
  IN IF found = {}
       THEN [ok |-> TRUE, rows |-> rows \cup {LockRow(apiKey, ownerId, t)}]
     ELSE LET existing == CHOOSE r \in found : TRUE IN
       IF existing.ownerId = ownerId
         THEN [ok |-> TRUE,
               rows |-> (rows \ found) \cup {[r EXCEPT !.acquiredAt = t] : r \in found}]
       ELSE IF existing.acquiredAt < staleBefore
         THEN [ok |-> TRUE,
               rows |-> (rows \ found)
                          \cup {[r EXCEPT !.ownerId = ownerId, !.acquiredAt = t] : r \in found}]
       ELSE [ok |-> FALSE, rows |-> rows]

\* touch(apiKey, ownerId): updateMany where { apiKey, ownerId }
touch(rows, apiKey, ownerId, t) ==
  {IF r.apiKey = apiKey /\ r.ownerId = ownerId THEN [r EXCEPT !.acquiredAt = t] ELSE r : r \in rows}

\* A release that deletes the row of the key whoever owns it.
releaseAnyOwner(rows, apiKey, ownerId) ==
  {r \in rows : r.apiKey # apiKey}

\* release(apiKey, ownerId): deleteMany where { apiKey, ownerId }
release(rows, apiKey, ownerId) ==
  {r \in rows : ~(r.apiKey = apiKey /\ r.ownerId = ownerId)}

\* releaseAll(ownerId): deleteMany where { ownerId }
releaseAll(rows, ownerId) == {r \in rows : r.ownerId # ownerId}

\* touch / release / releaseAll called by process p
NoWrite == [op |-> None, proc |-> None, apiKey |-> None]
Wrote(op, p, k) == [op |-> op, proc |-> p, apiKey |-> k]

\* no acquire() in flight
NoOp == [apiKey |-> None, t |-> 0]

NoAcquire == [proc |-> None, apiKey |-> None, ok |-> FALSE, foreign |-> FALSE, foreignFresh |-> FALSE]

\* What an acquire() transaction of process p for key k met and answered.
Observed(p, k, ok) ==
  [proc |-> p, apiKey |-> k, ok |-> ok,
   foreign |-> \E r \in locks : r.apiKey = k /\ r.ownerId # lockOwnerId(p),
   foreignFresh |-> \E r \in locks : r.apiKey = k /\ r.ownerId # lockOwnerId(p) /\ ~IsStale(r, now)]

\* const now = new Date(); (the transaction runs after a suspension)
LockAcquireBegin(p, k) ==
  /\ lockOp[p] = NoOp
  /\ lockOp' = [lockOp EXCEPT ![p] = [apiKey |-> k, t |-> now]]
  /\ UNCHANGED <<now, locks, lastAcquire, lastWrite>>
  /\ UNCHANGED svcVars

\* this.prisma.$transaction(async (tx) => { ... }) committing
LockAcquireTx(p) ==
  /\ lockOp[p] # NoOp
  /\ LET r == acquire(locks, lockOp[p].apiKey, lockOwnerId(p), lockTtlMs, lockOp[p].t) IN
       /\ locks' = r.rows
       /\ lastAcquire' = Observed(p, lockOp[p].apiKey, r.ok)
  /\ lockOp' = [lockOp EXCEPT ![p] = NoOp]
  /\ UNCHANGED <<now, lastWrite>>
  /\ UNCHANGED svcVars

\* The transaction aborted on a write conflict with a concurrent transaction
\* (P2034): acquire answers false and writes nothing.
LockAcquireConflict(p) ==
  /\ lockOp[p] # NoOp
  /\ \E q \in Procs \ {p} : lockOp[q] # NoOp
  /\ lastAcquire' = Observed(p, lockOp[p].apiKey, FALSE)
  /\ lockOp' = [lockOp EXCEPT ![p] = NoOp]
  /\ UNCHANGED <<now, locks, lastWrite>>
  /\ UNCHANGED svcVars

LockTouch(p, k) ==
  /\ locks' = touch(locks, k, lockOwnerId(p), now)
  /\ lastWrite' = Wrote("touch", p, k)
  /\ UNCHANGED <<now, lockOp, lastAcquire>>
  /\ UNCHANGED svcVars

LockRelease(p, k) ==
  /\ locks' = release(locks, k, lockOwnerId(p))
  /\ lastWrite' = Wrote("release", p, k)
  /\ UNCHANGED <<now, lockOp, lastAcquire>>
  /\ UNCHANGED svcVars

LockReleaseAll(p) ==
  /\ locks' = releaseAll(locks, lockOwnerId(p))
  /\ lastWrite' = Wrote("releaseAll", p, None)
  /\ UNCHANGED <<now, lockOp, lastAcquire>>
  /\ UNCHANGED svcVars

LockTick == Tick /\ UNCHANGED <<locks, lockOp, lastAcquire, lastWrite>> /\ UNCHANGED svcVars

----------------------------------------------------------------------------
\* ApiKeysService and PrismaApiKeysRepository

\* A key string as it arrives: its text without surrounding whitespace
\* (core, '' when there is none) and whether whitespace precedes / follows
Padded(lead, core, trail) == [lead |-> lead, core |-> core, trail |-> trail]
Plain(k) == Padded(FALSE, k, FALSE)

\* key.trim()
trim(s) == Padded(FALSE, s.core, FALSE)

\* !normalized
IsEmpty(s) == ~s.lead /\ ~s.trail /\ s.core = ""

ApiKeyRow(key, isActive) == [key |-> key, isActive |-> isActive]
NoRecord == ApiKeyRow(None, FALSE)

\* prisma.apiKey.findUnique({ where: { key } }): stored keys carry no
\* surrounding whitespace, so only an unpadded string can equal one
findByKey(rows, s) == {r \in rows : Plain(r.key) = s}

NotRegistered == [ok |-> FALSE, record |-> NoRecord, error |-> "API key not registered"]
Registered(r) == [ok |-> TRUE, record |-> r, error |-> None]

\* The lookup done with the string as it arrived.
assertActiveUntrimmed(rows, key) ==
  LET found == findByKey(rows, key)
  IN IF IsEmpty(key) THEN NotRegistered
     ELSE IF found = {} THEN NotRegistered
     ELSE LET record == CHOOSE r \in found : TRUE
          IN IF ~record.isActive THEN NotRegistered ELSE Registered(record)

\* assertActive(key)
assertActive(rows, key) ==
  LET normalized == trim(key)
      found == findByKey(rows, normalized)
  IN IF IsEmpty(normalized) THEN NotRegistered
     ELSE IF found = {} THEN NotRegistered
     ELSE LET record == CHOOSE r \in found : TRUE
          IN IF ~record.isActive THEN NotRegistered ELSE Registered(record)

\* repository.create({ key, label }): P2002 on an existing key becomes
\* API_KEY_DUPLICATED; `failed` is any other rejection of the insert
create(rows, key, failed) ==
  IF failed THEN [outcome |-> "failed", rows |-> rows]
  ELSE IF \E r \in rows : r.key = key THEN [outcome |-> "duplicate", rows |-> rows]
  ELSE [outcome |-> "created", rows |-> rows \cup {ApiKeyRow(key, TRUE)}]

\* A deactivate that deletes the row.
deactivateByDelete(rows, key) ==
  [found |-> findByKey(rows, key) # {}, rows |-> {r \in rows : Plain(r.key) # key}]

\* repository.deactivate(key): update where { key }, null on P2025
deactivate(rows, key) ==
  [found |-> findByKey(rows, key) # {},
   rows |-> {IF Plain(r.key) = key THEN [r EXCEPT !.isActive = FALSE] ELSE r : r \in rows}]

\* for (let attempt = 0; attempt < 5; attempt += 1)
GenerateAttempts == 5

\* env.SECRET_KEY and the values of the x-secret-key header (None: absent)
SecretKey == "secret"
Headers == {None, SecretKey, "other"}

\* keys that generateRandomKey can draw, key strings of requests
GenKeys == {"g1", "g2"}
KeyInputs ==
  {Padded(l, c, t) : l \in BOOLEAN, c \in {"", "g1", "g2"}, t \in BOOLEAN}

\* Requests: assertActive(key) called by the session routes, and the three
\* admin routes.  attempt / creates / collisions follow generate's loop, ops
\* counts the controller operations the route handler has invoked.
ReqIds == {"r1", "r2"}
NoReply == [status |-> 0, message |-> None, data |-> NoRecord]
NoReq == [kind |-> None, pc |-> "idle", header |-> None, input |-> Plain(""),
          attempt |-> 0, creates |-> 0, collisions |-> 0, ops |-> 0,
          auth |-> NotRegistered, res |-> NoReply]

Reply(status, message, data) == [status |-> status, message |-> message, data |-> data]

\* A guard that lets a request without the header through.
secretMatchesOrAbsent(provided) == provided = None \/ provided = SecretKey

\* provided !== env.SECRET_KEY
secretMatches(provided) == provided = SecretKey

\* One pass through generate's loop body with the outcome of create.
generateStepRetryAll(rq, outcome, key) ==
  LET r1 == [rq EXCEPT !.attempt = @ + 1, !.creates = @ + 1] IN
    IF outcome = "created"
      THEN [r1 EXCEPT !.pc = "done", !.res = Reply(201, "success", ApiKeyRow(key, TRUE))]
    ELSE IF r1.attempt < GenerateAttempts
      THEN [r1 EXCEPT !.collisions = IF outcome = "duplicate" THEN @ + 1 ELSE @]
    ELSE [r1 EXCEPT !.pc = "done", !.collisions = IF outcome = "duplicate" THEN @ + 1 ELSE @,
                    !.res = Reply(500, "Unable to generate API key, please retry", NoRecord)]

\* One pass through generate's loop body with the outcome of create: return
\* the record, continue on API_KEY_DUPLICATED (and throw 'Failed to generate
\* unique API key' when that was the fifth pass), rethrow anything else.  The
\* create route maps the exhaustion error to its own 500 and rethrows others.
generateStep(rq, outcome, key) ==
  LET r1 == [rq EXCEPT !.attempt = @ + 1, !.creates = @ + 1] IN
    IF outcome = "created"
      THEN [r1 EXCEPT !.pc = "done", !.res = Reply(201, "success", ApiKeyRow(key, TRUE))]
    ELSE IF outcome = "failed"
      THEN [r1 EXCEPT !.pc = "done", !.res = Reply(500, "create failed", NoRecord)]
    ELSE IF r1.attempt < GenerateAttempts
      THEN [r1 EXCEPT !.collisions = @ + 1]
    ELSE [r1 EXCEPT !.pc = "done", !.collisions = @ + 1,
                    !.res = Reply(500, "Unable to generate API key, please retry", NoRecord)]

\* The route handler behind the guard, up to its first await
adminHandler(rq, rows) ==
  CASE rq.kind = "list" ->
         [req |-> [rq EXCEPT !.pc = "done", !.ops = @ + 1, !.res = Reply(200, "success", NoRecord)],
          rows |-> rows]
    [] rq.kind = "create" ->
         [req |-> [rq EXCEPT !.pc = "generate", !.ops = @ + 1], rows |-> rows]
    [] OTHER ->
         IF IsEmpty(rq.input)
           THEN [req |-> [rq EXCEPT !.pc = "done", !.res = Reply(400, "Key parameter is required", NoRecord)],
                 rows |-> rows]
         ELSE LET d == deactivate(rows, rq.input) IN
           [req |-> [rq EXCEPT !.pc = "done", !.ops = @ + 1,
                               !.res = IF d.found
                                         THEN Reply(200, "success", ApiKeyRow(rq.input.core, FALSE))
                                         ELSE Reply(404, "API key not found", NoRecord)],
            rows |-> d.rows]

\* withSecretGuard(handler)
withSecretGuard(rq, rows) ==
  IF ~secretMatches(rq.header)
    THEN [req |-> [rq EXCEPT !.pc = "done", !.res = Reply(403, "Invalid secret key", NoRecord)],
          rows |-> rows]
  ELSE adminHandler(rq, rows)

\* A session route checks its key: assertActive(key)
AssertActiveCall(r, key) ==
  /\ req[r].kind = None
  /\ req' = [req EXCEPT ![r] = [NoReq EXCEPT !.kind = "assert", !.pc = "done", !.input = key,
                                             !.auth = assertActive(apiKeys, key)]]
  /\ UNCHANGED <<now, locks, lockOp, lastAcquire, lastWrite, apiKeys, store, random, app,
                 row, dbKeys, sessions, retry, obj, conn, call, sse>>

\* GET / , POST / , DELETE /:key of the admin module arrive
AdminRequest(r, kind, header, key) ==
  /\ req[r].kind = None
  /\ LET n == withSecretGuard([NoReq EXCEPT !.kind = kind, !.header = header, !.input = key], apiKeys)
     IN /\ req' = [req EXCEPT ![r] = n.req]
        /\ apiKeys' = n.rows
  /\ UNCHANGED <<now, locks, lockOp, lastAcquire, lastWrite, store, random, app,
                 row, dbKeys, sessions, retry, obj, conn, call, sse>>

\* generate: one generateRandomKey and one repository.create
GenerateAttempt(r, key, failed) ==
  /\ req[r].pc = "generate"
  /\ LET c == create(apiKeys, key, failed)
     IN /\ apiKeys' = c.rows
        /\ req' = [req EXCEPT ![r] = generateStep(@, c.outcome, key)]
  /\ UNCHANGED <<now, locks, lockOp, lastAcquire, lastWrite, store, random, app,
                 row, dbKeys, sessions, retry, obj, conn, call, sse>>

----------------------------------------------------------------------------
\* Bounds of the supervisor model: connect attempts (sockets) and
\* ManagedSession objects created in one behaviour
MaxConn == 2
MaxObj == 2

\* The tenant key whose session the supervisor model follows
SvcKey == "k1"

\* QR payloads, SignalKey ids
QrPayload == "qr1"
KeyIds == {"key1"}

\* Invocations of the public operations: one slot per invocation
CallIds == {"c1", "c2", "c3", "c4"}
ConnIds == 1..MaxConn
ObjIds == 1..MaxObj

\* A promise stored in state.connectPromise is the chain
\* task.catch(..).finally(..) derived from the attempt's task, not the task.
NoPromise == [id |-> 0, derived |-> FALSE]
Chain(a) == [id |-> a, derived |-> TRUE]
Task(a) == [id |-> a, derived |-> FALSE]

FreeObj == [proc |-> None, status |-> "DISCONNECTED", qr |-> None, socket |-> 0,
            connectPromise |-> NoPromise, qrWaiters |-> {}, connectionWaiters |-> {},
            lockHeld |-> FALSE, reconnectTimer |-> FALSE, delay |-> 0]

\* initializeSocket: state = { info: session, status: session.status, qrWaiters: [], connectionWaiters: [] }
NewManagedSession(p, status) == [FreeObj EXCEPT !.proc = p, !.status = status]

FreeConn == [proc |-> None, obj |-> 0, kind |-> None, pc |-> "unused", user |-> FALSE,
             save |-> FALSE, hQr |-> "idle", hOpen |-> "idle", hClose |-> "idle", loggedOut |-> FALSE]

\* What a route handler returned for a call of the Supervisor
NoAnswer == [route |-> None, status |-> 0, message |-> None]

NoRes == [ok |-> FALSE, status |-> None, qr |-> None, connected |-> FALSE, error |-> None]
FreeCall == [op |-> None, proc |-> None, pc |-> "idle", obj |-> 0, awaiting |-> NoPromise,
             timer |-> FALSE, rowStatus |-> None, valid |-> TRUE, res |-> NoRes,
             reply |-> NoAnswer]

\* Results and failures of the public operations
Ok(status, qr, connected) == [ok |-> TRUE, status |-> status, qr |-> qr, connected |-> connected, error |-> None]
Err(e) == [NoRes EXCEPT !.error = e]
Done(c0, res) == [FreeCall EXCEPT !.op = c0.op, !.proc = c0.proc, !.pc = "done", !.res = res]

\* Position of a connect attempt: its task is pending, or the socket it built
PendingPcs == {"acquire", "retouch", "load", "make", "failing"}
FailedPcs == {"releasing", "failed"}

Settled(pr) == IF pr.id = 0 THEN TRUE ELSE conn[pr.id].pc \notin PendingPcs
Rejected(pr) == pr.id # 0 /\ conn[pr.id].pc \in FailedPcs

\* constructed and not yet closed
Live(a) == conn[a].pc \in {"live", "closing"}
LiveSockets(p) == {a \in ConnIds : conn[a].proc = p /\ Live(a)}

\* a connect attempt of ManagedSession o is under way
AttemptPending(o) == \E a \in ConnIds : conn[a].obj = o /\ conn[a].pc \in PendingPcs

\* state.socket?.user
HasUser(ob) == ob.socket # 0 /\ conn[ob.socket].user

\* What the tasks still read: an attempt that failed, or a socket that
\* closed, with no handler or save still running is forgotten except for how
\* its promise settled.

Finished(a) ==
  /\ conn[a].pc \in {"closed", "failed"}
  /\ ~conn[a].save
  /\ "run" \notin {conn[a].hQr, conn[a].hOpen, conn[a].hClose}

conns == [a \in ConnIds |-> IF Finished(a) THEN [FreeConn EXCEPT !.pc = conn[a].pc] ELSE conn[a]]

NextFree(S, used) == CHOOSE i \in S : ~used[i] /\ \A j \in S : j < i => used[j]
HasFree(S, used) == \E i \in S : ~used[i]

UsedConn == [a \in ConnIds |-> conn[a].pc # "unused"]
UsedObj == [o \in ObjIds |-> obj[o].proc # None]

----------------------------------------------------------------------------
\* Waiters.  A QR-waiter or connection-waiter is the call that registered it;
\* call[c].timer is its setTimeout.

\* The check of the bound user after the wait left out.
AfterSendWaitUnchecked(c0, ob) ==
  IF ~c0.valid THEN Done(c0, Err("400"))
  ELSE [c0 EXCEPT !.pc = "send", !.timer = FALSE]

\* sendText after waitUntilConnected: 503 without a bound user, 400 for a bad
\* recipient, else socket.sendMessage
AfterSendWait(c0, ob) ==
  IF ~HasUser(ob) THEN Done(c0, Err("503"))
  ELSE IF ~c0.valid THEN Done(c0, Err("400"))
  ELSE [c0 EXCEPT !.pc = "send", !.timer = FALSE]

\* waitUntilConnected resolved: sendText goes on, warmSessions counts
ConnResolved(c0, ob) ==
  IF c0.op = "sendText" THEN AfterSendWait(c0, ob)
  ELSE Done(c0, Ok(None, None, HasUser(ob)))

\* waitUntilConnected rejected: sendText fails 503, warmSessions swallows it
ConnRejected(c0, ob) ==
  IF c0.op = "sendText" THEN Done(c0, Err("503"))
  ELSE Done(c0, Ok(None, None, HasUser(ob)))

resolveQrWaiters(cl, ob, qr) ==
  [c \in CallIds |-> IF c \in ob.qrWaiters THEN Done(cl[c], Ok("QR", qr, FALSE)) ELSE cl[c]]

rejectQrWaiters(cl, ob, e) ==
  [c \in CallIds |-> IF c \in ob.qrWaiters THEN Done(cl[c], Err(e)) ELSE cl[c]]

resolveConnectionWaiters(cl, ob) ==
  [c \in CallIds |-> IF c \in ob.connectionWaiters THEN ConnResolved(cl[c], ob) ELSE cl[c]]

rejectConnectionWaiters(cl, ob, e) ==
  [c \in CallIds |-> IF c \in ob.connectionWaiters THEN ConnRejected(cl[c], ob) ELSE cl[c]]

\* A waiter pushed with no deadline armed.
waitForQrNoDeadline(c0, c, ob) ==
  [call |-> [c0 EXCEPT !.pc = "waitQr", !.timer = FALSE],
   ob |-> [ob EXCEPT !.qrWaiters = @ \cup {c}]]

\* waitForQr: push a waiter and arm its qrTimeoutMs timer
waitForQr(c0, c, ob) ==
  [call |-> [c0 EXCEPT !.pc = "waitQr", !.timer = TRUE],
   ob |-> [ob EXCEPT !.qrWaiters = @ \cup {c}]]

\* waitUntilConnected: return at once with a bound user, else push a waiter
\* and arm its timer
waitUntilConnected(c0, c, ob) ==
  IF HasUser(ob) THEN [call |-> ConnResolved(c0, ob), ob |-> ob]
  ELSE [call |-> [c0 EXCEPT !.pc = "waitConn", !.timer = TRUE],
        ob |-> [ob EXCEPT !.connectionWaiters = @ \cup {c}]]

\* What the caller does when initializeSocket has returned `ob`
AfterInit(c0, c, ob) ==
  CASE c0.op = "getQr" ->
         IF ob.status = "CONNECTED" THEN [call |-> Done(c0, Ok("CONNECTED", None, FALSE)), ob |-> ob]
         ELSE IF ob.qr # None THEN [call |-> Done(c0, Ok("QR", ob.qr, FALSE)), ob |-> ob]
         ELSE waitForQr(c0, c, ob)
    [] c0.op = "sendText" ->
         IF ~ob.lockHeld /\ ~HasUser(ob) THEN [call |-> Done(c0, Err("423")), ob |-> ob]
         ELSE waitUntilConnected(c0, c, ob)
    [] OTHER -> waitUntilConnected(c0, c, ob)

\* initializeSocket up to its first suspension
EnterInit(c, c0, p) ==
  LET fresh == sessions[p] = 0
      o == IF fresh THEN NextFree(ObjIds, UsedObj) ELSE sessions[p]
      ob == IF fresh THEN NewManagedSession(p, c0.rowStatus) ELSE obj[o]
      c1 == [c0 EXCEPT !.obj = o]
  IN /\ fresh => HasFree(ObjIds, UsedObj)
     /\ sessions' = [sessions EXCEPT ![p] = o]
     /\ IF HasUser(ob)
          THEN LET r == AfterInit(c1, c, ob) IN
                 /\ obj' = [obj EXCEPT ![o] = r.ob]
                 /\ call' = [call EXCEPT ![c] = r.call]
          ELSE /\ obj' = [obj EXCEPT ![o] = ob]
               /\ call' = [call EXCEPT ![c] =
                    IF ob.connectPromise = NoPromise
                      THEN [c1 EXCEPT !.pc = IF ob.lockHeld THEN "touchCreate" ELSE "acq"]
                    ELSE IF ob.lockHeld THEN [c1 EXCEPT !.pc = "touchAwait"]
                    ELSE [c1 EXCEPT !.pc = "await", !.awaiting = ob.connectPromise]]

\* The gate of getQr and sendText dropped: a logged-out session is served
\* like any other.
LoggedOutIgnored(status) == FALSE

\* if (session.status === 'LOGGED_OUT')
LoggedOut(status) == status = "LOGGED_OUT"

NewCall(op, p) == [FreeCall EXCEPT !.op = op, !.proc = p, !.rowStatus = row.status]

\* ensureActiveKey: apiKeysService.assertActive(apiKey)
ensureActiveKey == assertActive(apiKeys, Plain(SvcKey)).ok

\* getQr: ensureActiveKey ('API key not registered', 403 over HTTP),
\* ensureSession, LOGGED_OUT check, initializeSocket
GetQrStart(c, p) ==
  /\ call[c].op = None
  /\ LET c0 == NewCall("getQr", p)
     IN IF ~ensureActiveKey
          THEN /\ call' = [call EXCEPT ![c] = Done(c0, Err("403"))]
               /\ UNCHANGED <<row, obj, sessions>>
          ELSE /\ row' = [row EXCEPT !.exists = TRUE]
               /\ IF LoggedOut(row.status)
                    THEN /\ call' = [call EXCEPT ![c] = Done(c0, Ok("LOGGED_OUT", None, FALSE))]
                         /\ UNCHANGED <<obj, sessions>>
                    ELSE EnterInit(c, c0, p)
  /\ UNCHANGED <<now, apiKeys, sse, lastWrite, sideVars, locks, lockOp, lastAcquire, dbKeys, retry>> /\ conn' = conns

\* sendText: ensureActiveKey, findSessionByApiKey, 404 / 409, initializeSocket
SendTextStart(c, p, valid) ==
  /\ call[c].op = None
  /\ LET c0 == [NewCall("sendText", p) EXCEPT !.valid = valid]
     IN IF ~ensureActiveKey
          THEN /\ call' = [call EXCEPT ![c] = Done(c0, Err("403"))]
               /\ UNCHANGED <<obj, sessions>>
        ELSE IF ~row.exists
          THEN /\ call' = [call EXCEPT ![c] = Done(c0, Err("404"))]
               /\ UNCHANGED <<obj, sessions>>
        ELSE IF LoggedOut(row.status)
          THEN /\ call' = [call EXCEPT ![c] = Done(c0, Err("409"))]
               /\ UNCHANGED <<obj, sessions>>
        ELSE EnterInit(c, c0, p)
  /\ UNCHANGED <<now, apiKeys, sse, lastWrite, sideVars, locks, lockOp, lastAcquire, row, dbKeys, retry>> /\ conn' = conns

\* getQr / sendText arriving while the persisted status is LOGGED_OUT
GetQrLoggedOut(c, p) == row.exists /\ row.status = "LOGGED_OUT" /\ GetQrStart(c, p)

SendTextLoggedOut(c, p, valid) == row.exists /\ row.status = "LOGGED_OUT" /\ SendTextStart(c, p, valid)

\* warmSessions for the session of the service key: candidates are CONNECTED
\* or DISCONNECTED rows with stored creds
WarmStart(c, p) ==
  /\ call[c].op = None
  /\ LET c0 == NewCall("warm", p)
     IN IF ~row.exists \/ row.status \notin {"CONNECTED", "DISCONNECTED"} \/ row.creds = "null"
          THEN /\ call' = [call EXCEPT ![c] = Done(c0, Ok(None, None, FALSE))]
               /\ UNCHANGED <<obj, sessions>>
        ELSE EnterInit(c, c0, p)
  /\ UNCHANGED <<now, apiKeys, sse, lastWrite, sideVars, locks, lockOp, lastAcquire, row, dbKeys, retry>> /\ conn' = conns

\* createSocket(state) called: a new attempt, suspended in buildAuthState
NewAttempt(p, o, kind, pc) == [FreeConn EXCEPT !.proc = p, !.obj = o, !.kind = kind, !.pc = pc]

\* initializeSocket after `await acquire` / `await touch` with no connectPromise
\* seen before the suspension: state.connectPromise = this.createSocket(state)...
InitAcquire(c, maxConn) ==
  /\ call[c].pc \in {"acq", "touchCreate"}
  /\ LET c0 == call[c]
         p == c0.proc
         o == c0.obj
         r == IF c0.pc = "acq"
                THEN acquire(locks, SvcKey, lockOwnerId(p), lockTtlMs, now)
                ELSE [ok |-> TRUE, rows |-> touch(locks, SvcKey, lockOwnerId(p), now)]
     IN /\ locks' = r.rows
        /\ IF ~r.ok
             THEN LET n == AfterInit(c0, c, obj[o]) IN
                    /\ call' = [call EXCEPT ![c] = n.call]
                    /\ obj' = [obj EXCEPT ![o] = n.ob]
                    /\ conn' = conns
             ELSE /\ HasFree(1..maxConn, UsedConn)
                  /\ LET a == NextFree(1..maxConn, UsedConn) IN
                       /\ conn' = [conns EXCEPT ![a] = NewAttempt(p, o, "init", "load")]
                       /\ obj' = [obj EXCEPT ![o].lockHeld = TRUE, ![o].connectPromise = Chain(a)]
                       /\ call' = [call EXCEPT ![c].pc = "await", ![c].awaiting = Chain(a)]
  /\ UNCHANGED <<now, apiKeys, sse, lastWrite, sideVars, lockOp, lastAcquire, row, dbKeys, sessions, retry>>

\* initializeSocket with a connectPromise already set and the lock held:
\* touch, then await state.connectPromise
InitTouchAwait(c) ==
  /\ call[c].pc = "touchAwait"
  /\ locks' = touch(locks, SvcKey, lockOwnerId(call[c].proc), now)
  /\ call' = [call EXCEPT ![c].pc = "await", ![c].awaiting = obj[call[c].obj].connectPromise]
  /\ UNCHANGED <<now, apiKeys, sse, lastWrite, sideVars, lockOp, lastAcquire, row, dbKeys, sessions, retry, obj>> /\ conn' = conns

\* await state.connectPromise settled: rethrow, or touch and return state
InitAwaited(c) ==
  /\ call[c].pc = "await"
  /\ Settled(call[c].awaiting)
  /\ LET c0 == call[c]
         o == c0.obj
     IN IF Rejected(c0.awaiting)
          THEN /\ call' = [call EXCEPT ![c] = Done(c0, Err("construct"))]
               /\ UNCHANGED <<obj, locks>>
          ELSE LET n == AfterInit(c0, c, obj[o]) IN
                 /\ call' = [call EXCEPT ![c] = n.call]
                 /\ obj' = [obj EXCEPT ![o] = n.ob]
                 /\ locks' = IF obj[o].lockHeld
                               THEN touch(locks, SvcKey, lockOwnerId(c0.proc), now)
                               ELSE locks
  /\ UNCHANGED <<now, apiKeys, sse, lastWrite, sideVars, lockOp, lastAcquire, row, dbKeys, sessions, retry>> /\ conn' = conns

----------------------------------------------------------------------------
\* Connect attempts: createSocket and the reconnect timer

\* Math.floor(Math.random() * 500), at its ends and in between
Jitter == {0, 250, 499}

Least(a, b) == IF a < b THEN a ELSE b

\* The delay without the cap of the exponent and of the base.
reconnectDelayUncapped(attempt, jitter) == 1000 * 2^(attempt - 1) + jitter

\* delay = Math.min(30_000, 1_000 * 2 ** Math.min(attempt - 1, 5)) + jitter
reconnectDelay(attempt, jitter) ==
  LET cappedExponent == Least(attempt - 1, 5)
      baseDelay == 1000 * 2^cappedExponent
  IN Least(30000, baseDelay) + jitter

\* scheduleReconnect: count the attempt, compute the delay, replace the
\* timer (obj[o].delay is the delay of the armed timer)
scheduleReconnect(ob, attempt, jitter) ==
  [ob EXCEPT !.reconnectTimer = TRUE, !.delay = reconnectDelay(attempt, jitter)]

\* Math.random() yields another value
Random(j) ==
  /\ random # j
  /\ random' = j
  /\ UNCHANGED <<now, locks, lockOp, lastAcquire, lastWrite, apiKeys, req, store, app,
                 row, dbKeys, sessions, retry, obj, conn, call, sse>>

\* .finally(() => { state.connectPromise = undefined }) of initializeSocket
ClearInitPromise(ob, a) == [ob EXCEPT !.connectPromise = NoPromise]

\* .finally(() => { if (state.connectPromise === connectTask) state.connectPromise = undefined })
ClearReconnectPromise(ob, a) ==
  IF ob.connectPromise = Task(a) THEN [ob EXCEPT !.connectPromise = NoPromise] ELSE ob

ClearPromise(ob, a) ==
  IF conn[a].kind = "init" THEN ClearInitPromise(ob, a) ELSE ClearReconnectPromise(ob, a)

\* buildAuthState: loadCreds, and saveCreds(initAuthCreds()) when there are none
CsLoad(a) ==
  /\ conn[a].pc = "load"
  /\ row' = IF row.creds = "null" THEN [row EXCEPT !.creds = "creds"] ELSE row
  /\ conn' = [conns EXCEPT ![a].pc = "make"]
  /\ UNCHANGED <<now, apiKeys, sse, lastWrite, sideVars, locks, lockOp, lastAcquire, dbKeys, sessions, retry, obj>> /\ UNCHANGED call

\* makeWASocket returns (state.socket = socket, listeners registered) or throws
CsMake(a, ok) ==
  /\ conn[a].pc = "make"
  /\ LET o == conn[a].obj IN
       IF ok
         THEN /\ conn' = [conns EXCEPT ![a].pc = "live"]
              /\ obj' = [obj EXCEPT ![o] = ClearPromise([@ EXCEPT !.socket = a], a)]
         ELSE /\ conn' = [conns EXCEPT ![a].pc = "failing"]
              /\ UNCHANGED obj
  /\ UNCHANGED <<now, apiKeys, sse, lastWrite, sideVars, locks, lockOp, lastAcquire, row, dbKeys, sessions, retry>> /\ UNCHANGED call

\* createSocket's catch after `await updateStatus(id, 'ERROR')`, then the
\* caller's catch/finally: initializeSocket starts the release of the lock,
\* the reconnect timer callback reschedules
CsFail(a) ==
  /\ conn[a].pc = "failing"
  /\ LET o == conn[a].obj
         p == conn[a].proc
         ob1 == [obj[o] EXCEPT !.status = "ERROR", !.qrWaiters = {}]
     IN /\ row' = [row EXCEPT !.status = "ERROR"]
        /\ call' = rejectQrWaiters(call, obj[o], "construct")
        /\ IF conn[a].kind = "init"
             THEN /\ obj' = [obj EXCEPT ![o] = ClearPromise(ob1, a)]
                  /\ conn' = [conns EXCEPT ![a].pc = IF ob1.lockHeld THEN "releasing" ELSE "failed"]
                  /\ UNCHANGED retry
             ELSE /\ obj' = [obj EXCEPT ![o] = ClearPromise(scheduleReconnect(ob1, retry[p] + 1, random), a)]
                  /\ conn' = [conns EXCEPT ![a].pc = "failed"]
                  /\ retry' = [retry EXCEPT ![p] = @ + 1]
  /\ UNCHANGED <<now, apiKeys, sse, lastWrite, sideVars, locks, lockOp, lastAcquire, dbKeys, sessions>>

\* void lockRepository.release(..).finally(() => { state.lockHeld = false })
CsRelease(a) ==
  /\ conn[a].pc = "releasing"
  /\ locks' = release(locks, SvcKey, lockOwnerId(conn[a].proc))
  /\ obj' = [obj EXCEPT ![conn[a].obj].lockHeld = FALSE]
  /\ conn' = [conns EXCEPT ![a].pc = "failed"]
  /\ UNCHANGED <<now, apiKeys, sse, lastWrite, sideVars, lockOp, lastAcquire, row, dbKeys, sessions, retry>> /\ UNCHANGED call

\* The reconnect timer fires: skip when a user is bound or a connectPromise
\* is set, else start connectTask and store its chain
TimerFire(o, maxConn) ==
  /\ obj[o].reconnectTimer
  /\ LET ob1 == [obj[o] EXCEPT !.reconnectTimer = FALSE, !.delay = 0] IN
       IF HasUser(ob1) \/ ob1.connectPromise # NoPromise
         THEN /\ obj' = [obj EXCEPT ![o] = ob1]
              /\ conn' = conns
         ELSE /\ HasFree(1..maxConn, UsedConn)
              /\ LET a == NextFree(1..maxConn, UsedConn) IN
                   /\ conn' = [conns EXCEPT ![a] =
                        NewAttempt(ob1.proc, o, "reconnect", IF ob1.lockHeld THEN "retouch" ELSE "acquire")]
                   /\ obj' = [obj EXCEPT ![o] = [ob1 EXCEPT !.connectPromise = Chain(a)]]
  /\ UNCHANGED <<now, apiKeys, sse, lastWrite, sideVars, locks, lockOp, lastAcquire, row, dbKeys, sessions, retry>> /\ UNCHANGED call

\* connectTask after `await acquire` / `await touch`: throw when refused
\* (caught: scheduleReconnect), else createSocket
RcAcquire(a) ==
  /\ conn[a].pc \in {"acquire", "retouch"}
  /\ LET o == conn[a].obj
         p == conn[a].proc
         r == IF conn[a].pc = "acquire"
                THEN acquire(locks, SvcKey, lockOwnerId(p), lockTtlMs, now)
                ELSE [ok |-> TRUE, rows |-> touch(locks, SvcKey, lockOwnerId(p), now)]
     IN /\ locks' = r.rows
        /\ IF r.ok
             THEN /\ conn' = [conns EXCEPT ![a].pc = "load"]
                  /\ obj' = [obj EXCEPT ![o].lockHeld = TRUE]
                  /\ UNCHANGED retry
             ELSE /\ conn' = [conns EXCEPT ![a].pc = "failed"]
                  /\ obj' = [obj EXCEPT ![o] = ClearPromise(scheduleReconnect(@, retry[p] + 1, random), a)]
                  /\ retry' = [retry EXCEPT ![p] = @ + 1]
  /\ UNCHANGED <<now, apiKeys, sse, lastWrite, sideVars, lockOp, lastAcquire, row, dbKeys, sessions>> /\ UNCHANGED call

----------------------------------------------------------------------------
\* Upstream events of a socket and handleConnectionUpdate(state, update).
\* The listener runs `void this.handleConnectionUpdate(state, update)`: the
\* handler runs to its first await when the event is emitted (Ev..) and
\* finishes later (H..).

\* previousSocket.ws.close()
wsClose(cn, s) == IF s # 0 /\ cn[s].pc = "live" THEN [cn EXCEPT ![s].pc = "closing"] ELSE cn

\* The upstream binds the user identity of a live socket (pairing, or creds
\* that carry an identity)
BindUser(a) ==
  /\ conn[a].pc = "live"
  /\ ~conn[a].user
  /\ conn' = [conns EXCEPT ![a].user = TRUE]
  /\ UNCHANGED <<now, apiKeys, sse, lastWrite, sideVars, locks, lockOp, lastAcquire, row, dbKeys, sessions, retry, obj>> /\ UNCHANGED call

\* update.qr: state.qr = qr, publish, updateSessionStatus sets state.status
EvQr(a) ==
  /\ conn[a].pc = "live"
  /\ conn[a].hQr = "idle"
  /\ conn[a].hOpen = "idle"
  /\ conn' = [conns EXCEPT ![a].hQr = "run"]
  /\ obj' = [obj EXCEPT ![conn[a].obj].qr = QrPayload, ![conn[a].obj].status = "QR"]
  /\ UNCHANGED <<now, apiKeys, sse, lastWrite, sideVars, locks, lockOp, lastAcquire, row, dbKeys, sessions, retry>> /\ UNCHANGED call

\* ... repository.updateStatus(QR) done: resolveQrWaiters(state, qr)
HQr(a) ==
  /\ conn[a].hQr = "run"
  /\ LET o == conn[a].obj IN
       /\ row' = [row EXCEPT !.status = "QR"]
       /\ call' = resolveQrWaiters(call, obj[o], QrPayload)
       /\ obj' = [obj EXCEPT ![o].qrWaiters = {}]
  /\ conn' = [conns EXCEPT ![a].hQr = "done"]
  /\ UNCHANGED <<now, apiKeys, sse, lastWrite, sideVars, locks, lockOp, lastAcquire, dbKeys, sessions, retry>>

\* connection === 'open': state.qr = undefined, state.status = CONNECTED
EvOpen(a) ==
  /\ conn[a].pc = "live"
  /\ conn[a].user
  /\ conn[a].hOpen = "idle"
  /\ conn' = [conns EXCEPT ![a].hOpen = "run"]
  /\ obj' = [obj EXCEPT ![conn[a].obj].qr = None, ![conn[a].obj].status = "CONNECTED"]
  /\ UNCHANGED <<now, apiKeys, sse, lastWrite, sideVars, locks, lockOp, lastAcquire, row, dbKeys, sessions, retry>> /\ UNCHANGED call

\* clearQrWaiters: state.qrWaiters = []
clearQrWaiters(ob) == [ob EXCEPT !.qrWaiters = {}]

\* ... updateStatus(CONNECTED) done: touch, cancel the reconnect timer,
\* clearQrWaiters, resolveConnectionWaiters, reset the attempt counter
HOpen(a) ==
  /\ conn[a].hOpen = "run"
  /\ LET o == conn[a].obj
         p == conn[a].proc
         ob1 == [clearQrWaiters(obj[o]) EXCEPT !.reconnectTimer = FALSE, !.delay = 0, !.connectionWaiters = {}]
     IN /\ row' = [row EXCEPT !.status = "CONNECTED"]
        /\ locks' = IF obj[o].lockHeld THEN touch(locks, SvcKey, lockOwnerId(p), now) ELSE locks
        /\ call' = resolveConnectionWaiters(call, obj[o])
        /\ obj' = [obj EXCEPT ![o] = ob1]
        /\ retry' = [retry EXCEPT ![p] = 0]
  /\ conn' = [conns EXCEPT ![a].hOpen = "done"]
  /\ UNCHANGED <<now, apiKeys, sse, lastWrite, sideVars, lockOp, lastAcquire, dbKeys, sessions>>

\* connection === 'close': the socket has ended; state.qr = undefined, the
\* timer is cancelled, state.socket is closed and dropped; a close that is
\* not loggedOut sets state.status = DISCONNECTED before its first await
EvClose(a, lo) ==
  /\ Live(a)
  /\ conn[a].hClose = "idle"
  /\ LET o == conn[a].obj
         cn1 == [conns EXCEPT ![a].pc = "closed", ![a].hClose = "run", ![a].loggedOut = lo]
     IN /\ conn' = wsClose(cn1, obj[o].socket)
        /\ obj' = [obj EXCEPT ![o].qr = None, ![o].reconnectTimer = FALSE, ![o].delay = 0, ![o].socket = 0,
                              ![o].status = IF lo THEN @ ELSE "DISCONNECTED"]
  /\ UNCHANGED <<now, apiKeys, sse, lastWrite, sideVars, locks, lockOp, lastAcquire, row, dbKeys, sessions, retry>> /\ UNCHANGED call

\* ... the rest of the close branch: loggedOut clears the session data, sets
\* LOGGED_OUT, releases the lock and deletes the map entry; otherwise
\* DISCONNECTED is persisted and a reconnect scheduled; waiters are rejected
HClose(a) ==
  /\ conn[a].hClose = "run"
  /\ LET o == conn[a].obj
         p == conn[a].proc
         ob1 == [obj[o] EXCEPT !.qrWaiters = {}, !.connectionWaiters = {}]
     IN /\ call' = rejectConnectionWaiters(rejectQrWaiters(call, obj[o], "closed"), obj[o], "closed")
        /\ IF conn[a].loggedOut
             THEN /\ row' = [row EXCEPT !.status = "LOGGED_OUT", !.creds = "null"]
                  /\ dbKeys' = {}
                  /\ locks' = IF obj[o].lockHeld THEN release(locks, SvcKey, lockOwnerId(p)) ELSE locks
                  /\ obj' = [obj EXCEPT ![o] = [ob1 EXCEPT !.status = "LOGGED_OUT", !.lockHeld = FALSE]]
                  /\ retry' = [retry EXCEPT ![p] = 0]
                  /\ sessions' = [sessions EXCEPT ![p] = 0]
             ELSE /\ row' = [row EXCEPT !.status = "DISCONNECTED"]
                  /\ obj' = [obj EXCEPT ![o] = scheduleReconnect(ob1, retry[p] + 1, random)]
                  /\ retry' = [retry EXCEPT ![p] = @ + 1]
                  /\ UNCHANGED <<dbKeys, locks, sessions>>
  /\ conn' = [conns EXCEPT ![a].hClose = "done"]
  /\ UNCHANGED <<now, apiKeys, sse, lastWrite, sideVars, lockOp, lastAcquire>>

\* creds.update: saveCreds() is called, its store write is in flight
EvCredsUpdate(a) ==
  /\ conn[a].pc = "live"
  /\ ~conn[a].save
  /\ conn' = [conns EXCEPT ![a].save = TRUE]
  /\ UNCHANGED <<now, apiKeys, sse, lastWrite, sideVars, locks, lockOp, lastAcquire, row, dbKeys, sessions, retry, obj>> /\ UNCHANGED call

\* repository.saveCreds(sessionId, creds) writes the credential blob
SaveCreds(a) ==
  /\ conn[a].save
  /\ conn' = [conns EXCEPT ![a].save = FALSE]
  /\ row' = [row EXCEPT !.creds = "creds"]
  /\ UNCHANGED <<now, apiKeys, sse, lastWrite, sideVars, locks, lockOp, lastAcquire, dbKeys, sessions, retry, obj>> /\ UNCHANGED call

\* keys.set of the auth state: repository.setKeys upserts a SignalKey row
KeysSet(a, k) ==
  /\ conn[a].pc = "live"
  /\ k \notin dbKeys
  /\ dbKeys' = dbKeys \cup {k}
  /\ UNCHANGED <<now, apiKeys, sse, lastWrite, sideVars, locks, lockOp, lastAcquire, row, sessions, retry, obj>> /\ UNCHANGED call /\ conn' = conns

----------------------------------------------------------------------------
\* logout, getConnectionStatus, waiter timeouts, the upstream send

\* logout: ensureActiveKey, findSessionByApiKey (404), state = sessions.get(key);
\* with a socket: await state.socket.logout()
LogoutStart(c, p) ==
  /\ call[c].op = None
  /\ LET c0 == [NewCall("logout", p) EXCEPT !.obj = sessions[p]]
     IN call' = [call EXCEPT ![c] =
          IF ~ensureActiveKey THEN Done(c0, Err("403"))
          ELSE IF ~row.exists THEN Done(c0, Err("404"))
          ELSE IF sessions[p] # 0 /\ obj[sessions[p]].socket # 0 THEN [c0 EXCEPT !.pc = "lo1"]
          ELSE [c0 EXCEPT !.pc = "lo2"]]
  /\ UNCHANGED <<now, apiKeys, sse, lastWrite, sideVars, locks, lockOp, lastAcquire, row, dbKeys, sessions, retry, obj>> /\ conn' = conns

\* socket.logout() returned or threw; state.socket.ws.close()
Logout1(c) ==
  /\ call[c].pc = "lo1"
  /\ conn' = wsClose(conns, obj[call[c].obj].socket)
  /\ call' = [call EXCEPT ![c].pc = "lo2"]
  /\ UNCHANGED <<now, apiKeys, sse, lastWrite, sideVars, locks, lockOp, lastAcquire, row, dbKeys, sessions, retry, obj>>

\* repository.clearSessionData(session.id)
Logout2(c) ==
  /\ call[c].pc = "lo2"
  /\ row' = [row EXCEPT !.creds = "null"]
  /\ dbKeys' = {}
  /\ call' = [call EXCEPT ![c].pc = "lo3"]
  /\ UNCHANGED <<now, apiKeys, sse, lastWrite, sideVars, locks, lockOp, lastAcquire, sessions, retry, obj>> /\ conn' = conns

\* What logout does to the ManagedSession it found: socket, qr and waiters
\* dropped, status LOGGED_OUT
LogoutState(ob) ==
  [ob EXCEPT !.socket = 0, !.qr = None, !.status = "LOGGED_OUT", !.qrWaiters = {},
             !.connectionWaiters = {}]

\* repository.updateStatus(LOGGED_OUT), then the in-memory state: with the
\* lock held the release is awaited before sessions.delete
Logout3(c) ==
  /\ call[c].pc = "lo3"
  /\ row' = [row EXCEPT !.status = "LOGGED_OUT"]
  /\ LET c0 == call[c]
         o == c0.obj
     IN IF o = 0
          THEN /\ call' = [call EXCEPT ![c] = Done(c0, Ok("LOGGED_OUT", None, FALSE))]
               /\ UNCHANGED <<obj, sessions>>
          ELSE /\ obj' = [obj EXCEPT ![o] = LogoutState(@)]
               /\ LET cl1 == rejectConnectionWaiters(call, obj[o], "Logged out") IN
                    IF obj[o].lockHeld
                      THEN /\ call' = [cl1 EXCEPT ![c].pc = "lo4"]
                           /\ UNCHANGED sessions
                      ELSE /\ call' = [cl1 EXCEPT ![c] = Done(c0, Ok("LOGGED_OUT", None, FALSE))]
                           /\ sessions' = [sessions EXCEPT ![c0.proc] = 0]
  /\ UNCHANGED <<now, apiKeys, sse, lastWrite, sideVars, locks, lockOp, lastAcquire, dbKeys, retry>> /\ conn' = conns

\* lockRepository.release done: lockHeld = false, sessions.delete(key)
Logout4(c) ==
  /\ call[c].pc = "lo4"
  /\ locks' = release(locks, SvcKey, lockOwnerId(call[c].proc))
  /\ obj' = [obj EXCEPT ![call[c].obj].lockHeld = FALSE]
  /\ sessions' = [sessions EXCEPT ![call[c].proc] = 0]
  /\ call' = [call EXCEPT ![c] = Done(@, Ok("LOGGED_OUT", None, FALSE))]
  /\ UNCHANGED <<now, apiKeys, sse, lastWrite, sideVars, lockOp, lastAcquire, row, dbKeys, retry>> /\ conn' = conns

\* getConnectionStatus: ensureActiveKey, findSessionByApiKey (404)
StatusStart(c, p) ==
  /\ call[c].op = None
  /\ LET c0 == NewCall("status", p)
     IN call' = [call EXCEPT ![c] =
          IF ~ensureActiveKey THEN Done(c0, Err("403"))
          ELSE IF ~row.exists THEN Done(c0, Err("404"))
          ELSE [c0 EXCEPT !.pc = "st2"]]
  /\ UNCHANGED <<now, apiKeys, sse, lastWrite, sideVars, locks, lockOp, lastAcquire, row, dbKeys, sessions, retry, obj>> /\ conn' = conns

\* `connected` taken from the in-memory status, as getQr does.
getConnectionStatusByStatus(p, rowStatus) ==
  LET o == sessions[p]
      connected == o # 0 /\ obj[o].status = "CONNECTED"
  IN Ok(IF connected THEN "CONNECTED" ELSE IF o # 0 THEN obj[o].status ELSE rowStatus,
        None, connected)

\* connected = Boolean(state?.socket?.user);
\* status = connected ? 'CONNECTED' : (state?.status ?? session.status)
getConnectionStatus(p, rowStatus) ==
  LET o == sessions[p]
      connected == o # 0 /\ HasUser(obj[o])
  IN Ok(IF connected THEN "CONNECTED" ELSE IF o # 0 THEN obj[o].status ELSE rowStatus,
        None, connected)

StatusDone(c) ==
  /\ call[c].pc = "st2"
  /\ call' = [call EXCEPT ![c] = Done(@, getConnectionStatus(@.proc, @.rowStatus))]
  /\ UNCHANGED <<now, apiKeys, sse, lastWrite, sideVars, locks, lockOp, lastAcquire, row, dbKeys, sessions, retry, obj>> /\ conn' = conns

\* The qrTimeoutMs timer of waitForQr: removeQrWaiter, reject
QrTimeout(c) ==
  /\ call[c].pc = "waitQr"
  /\ call[c].timer
  /\ obj' = [obj EXCEPT ![call[c].obj].qrWaiters = @ \ {c}]
  /\ call' = [call EXCEPT ![c] = Done(@, Err("QR code generation timeout"))]
  /\ UNCHANGED <<now, apiKeys, sse, lastWrite, sideVars, locks, lockOp, lastAcquire, row, dbKeys, sessions, retry>> /\ conn' = conns

\* The timer of waitUntilConnected: remove the waiter, reject
ConnTimeout(c) ==
  /\ call[c].pc = "waitConn"
  /\ call[c].timer
  /\ obj' = [obj EXCEPT ![call[c].obj].connectionWaiters = @ \ {c}]
  /\ call' = [call EXCEPT ![c] = ConnRejected(@, obj[call[c].obj])]
  /\ UNCHANGED <<now, apiKeys, sse, lastWrite, sideVars, locks, lockOp, lastAcquire, row, dbKeys, sessions, retry>> /\ conn' = conns

\* socket.sendMessage returned or threw; touch while the lock is held
SendDone(c, ok) ==
  /\ call[c].pc = "send"
  /\ locks' = IF ok /\ obj[call[c].obj].lockHeld
                THEN touch(locks, SvcKey, lockOwnerId(call[c].proc), now)
                ELSE locks
  /\ call' = [call EXCEPT ![c] = Done(@, IF ok THEN Ok(None, None, TRUE) ELSE Err("send"))]
  /\ UNCHANGED <<now, apiKeys, sse, lastWrite, sideVars, lockOp, lastAcquire, row, dbKeys, sessions, retry, obj>> /\ conn' = conns

\* apiKeysService.deactivate(key): isActive = false
Deactivate ==
  /\ ensureActiveKey
  /\ apiKeys' = deactivate(apiKeys, Plain(SvcKey)).rows
  /\ UNCHANGED <<now, sse, lastWrite, sideVars, locks, lockOp, lastAcquire, row, dbKeys, sessions, retry, obj>>
  /\ UNCHANGED call
  /\ conn' = conns

SvcTick ==
  /\ Tick
  /\ UNCHANGED <<locks, lockOp, lastAcquire, lastWrite, sideVars, apiKeys, sse, row, dbKeys, sessions, retry, obj>>
  /\ UNCHANGED call
  /\ conn' = conns

----------------------------------------------------------------------------
\* Store operations that reject inside the handlers

\* updateSessionStatus(state, 'QR') with repository.updateStatus rejecting:
\* caught and logged, the row keeps its status, resolveQrWaiters runs
HQrStatusFails(a) ==
  /\ conn[a].hQr = "run"
  /\ LET o == conn[a].obj IN
       /\ call' = resolveQrWaiters(call, obj[o], QrPayload)
       /\ obj' = [obj EXCEPT ![o].qrWaiters = {}]
  /\ conn' = [conns EXCEPT ![a].hQr = "done"]
  /\ UNCHANGED <<now, apiKeys, sse, lastWrite, sideVars, locks, lockOp, lastAcquire, row, dbKeys, sessions, retry>>

\* the loggedOut close branch with repository.clearSessionData rejecting:
\* the await is not guarded, the handler's promise rejects (it was started
\* with `void`) and the rest of the branch does not run
HCloseClearFails(a) ==
  /\ conn[a].hClose = "run"
  /\ conn[a].loggedOut
  /\ conn' = [conns EXCEPT ![a].hClose = "done"]
  /\ UNCHANGED <<now, apiKeys, sse, lastWrite, sideVars, locks, lockOp, lastAcquire, row, dbKeys, sessions, retry, obj>>
  /\ UNCHANGED call

\* createSocket's catch with repository.updateStatus(id, 'ERROR') rejecting:
\* the await is not guarded, so state.status is not set and the QR-waiters
\* are not rejected; createSocket rejects and the caller's catch/finally
\* runs as for a construction failure
CsFailStatusFails(a) ==
  /\ conn[a].pc = "failing"
  /\ LET o == conn[a].obj
         p == conn[a].proc
     IN IF conn[a].kind = "init"
          THEN /\ obj' = [obj EXCEPT ![o] = ClearPromise(@, a)]
               /\ conn' = [conns EXCEPT ![a].pc = IF obj[o].lockHeld THEN "releasing" ELSE "failed"]
               /\ UNCHANGED retry
          ELSE /\ obj' = [obj EXCEPT ![o] = ClearPromise(scheduleReconnect(@, retry[p] + 1, random), a)]
               /\ conn' = [conns EXCEPT ![a].pc = "failed"]
               /\ retry' = [retry EXCEPT ![p] = @ + 1]
  /\ UNCHANGED <<now, apiKeys, sse, lastWrite, sideVars, locks, lockOp, lastAcquire, row, dbKeys, sessions>>
  /\ UNCHANGED call

----------------------------------------------------------------------------
\* WhatsappSseService: the subscribers of each apiKey

\* Bound of the event bus model: publish calls in one behaviour
MaxPub == 2

\* SSE clients (one per stream request)
Subs == {"s1", "s2"}

\* A client that was not created yet.  `mode` is its transport: "ok"
\* (writable), "throws" (not ended, but a write throws) or "ended"
\* (writableEnded); `frames` is what was written to it; `at` counts the
\* publish calls made before it attached; `init` is the initial snapshot
\* it was given ("status", or "qr" for a status and a non-null QR)
NoSub == [key |-> None, mode |-> "ok", frames |-> <<>>, at |-> 0, init |-> None]

\* Bound of the event bus model: heartbeat ticks in one behaviour
MaxBeat == 1

\* the bus after construction: no clients; `log` is the list of publish
\* calls made and `beats` the number of heartbeat ticks (observation)
NoBus == [clients |-> [k \in Keys |-> {}], sub |-> [s \in Subs |-> NoSub], log |-> <<>>, beats |-> 0]

Frame(event, n, data) == [event |-> event, n |-> n, data |-> data]

\* removeClient(apiKey, client)
removeClient(b, k, s) == [b EXCEPT !.clients[k] = @ \ {s}]

\* client.send / client.comment: a client that is not alive is removed, a
\* write that throws removes the client, else the frame is written
clientSend(b, k, s, f) ==
  IF b.sub[s].mode # "ok" THEN removeClient(b, k, s)
  ELSE [b EXCEPT !.sub[s].frames = Append(@, f)]

\* for (const client of clients) client.send(event, payload)
RECURSIVE sendEach(_, _, _, _)
sendEach(b, k, S, f) ==
  IF S = {} THEN b
  ELSE LET s == CHOOSE x \in S : TRUE IN sendEach(clientSend(b, k, s, f), k, S \ {s}, f)

\* A broadcast that does not look at the key: every client of the bus is
\* written.
broadcastToAll(b, k, f) ==
  [b EXCEPT !.sub = [s \in Subs |->
     IF b.sub[s].key # None /\ b.sub[s].mode = "ok"
       THEN [b.sub[s] EXCEPT !.frames = Append(@, f)] ELSE b.sub[s]]]

\* broadcast(apiKey, event, payload)
broadcast(b, k, f) == sendEach(b, k, b.clients[k], f)

\* attachClient with the initial qr written before the initial status.
attachClientQrFirst(b, k, s, init) ==
  LET b1 == [b EXCEPT !.clients[k] = @ \cup {s}]
      b2 == clientSend(b1, k, s, Frame("comment", 0, "connected"))
      b3 == IF init = "qr" THEN clientSend(b2, k, s, Frame("qr", 0, QrPayload)) ELSE b2
  IN IF init = None THEN b3 ELSE clientSend(b3, k, s, Frame("status", 0, "initial"))

\* attachClient(apiKey, client, initial): register, comment, initial status,
\* initial qr when there is one
attachClient(b, k, s, init) ==
  LET b1 == [b EXCEPT !.clients[k] = @ \cup {s}]
      b2 == clientSend(b1, k, s, Frame("comment", 0, "connected"))
      b3 == IF init = None THEN b2 ELSE clientSend(b2, k, s, Frame("status", 0, "initial"))
  IN IF init = "qr" THEN clientSend(b3, k, s, Frame("qr", 0, QrPayload)) ELSE b3

\* subscribeExpress / subscribeFastify: headers and ': connected' written to
\* the response, createClient, attachClient
Subscribe(s, k, init) ==
  /\ sse.sub[s].key = None
  /\ LET b1 == [sse EXCEPT !.sub[s] =
                  [NoSub EXCEPT !.key = k, !.at = Len(sse.log), !.init = init,
                                !.frames = <<Frame("comment", 0, "connected")>>]]
     IN sse' = attachClient(b1, k, s, init)
  /\ UNCHANGED <<now, locks, lockOp, lastAcquire, lastWrite, sideVars, apiKeys, row, dbKeys, sessions, retry, obj, conn, call>>

\* publishStatus(info) / publishQr(apiKey, qr): the n-th publish call
Publish(k, event, data) ==
  /\ Len(sse.log) < MaxPub
  /\ LET b1 == [sse EXCEPT !.log = Append(@, [key |-> k, event |-> event])]
     IN sse' = broadcast(b1, k, Frame(event, Len(b1.log), data))
  /\ UNCHANGED <<now, locks, lockOp, lastAcquire, lastWrite, sideVars, apiKeys, row, dbKeys, sessions, retry, obj, conn, call>>

\* isAlive(): actions.alive(), i.e. !response.writableEnded
isAlive(b, s) == b.sub[s].mode # "ended"

\* dispatchHeartbeat's loop body: skip a client that is not alive, else
\* client.comment('keep-alive')
heartbeatClient(b, k, s) ==
  IF ~isAlive(b, s) THEN b ELSE clientSend(b, k, s, Frame("comment", 0, "keep-alive"))

\* for (const clients of this.clients.values()) for (const client of clients) ...
RECURSIVE dispatchHeartbeat(_, _)
dispatchHeartbeat(b, S) ==
  IF S = {} THEN b
  ELSE LET s == CHOOSE x \in S : TRUE
       IN dispatchHeartbeat(heartbeatClient(b, b.sub[s].key, s), S \ {s})

\* The heartbeat timer ticks (setInterval, heartbeatMs)
Heartbeat ==
  /\ sse.beats < MaxBeat
  /\ sse' = dispatchHeartbeat([sse EXCEPT !.beats = @ + 1], UNION {sse.clients[k] : k \in Keys})
  /\ UNCHANGED <<now, locks, lockOp, lastAcquire, lastWrite, sideVars, apiKeys, row, dbKeys, sessions, retry, obj, conn, call>>

\* The transport of a client breaks (writes throw) or ends (writableEnded)
TransportFails(s, mode) ==
  /\ sse.sub[s].key # None
  /\ sse.sub[s].mode = "ok"
  /\ sse' = [sse EXCEPT !.sub[s].mode = mode]
  /\ UNCHANGED <<now, locks, lockOp, lastAcquire, lastWrite, sideVars, apiKeys, row, dbKeys, sessions, retry, obj, conn, call>>

\* request.on('close') / response.on('error'): removeClient
TransportClosed(s) ==
  /\ sse.sub[s].key # None
  /\ s \in sse.clients[sse.sub[s].key]
  /\ sse' = removeClient(sse, sse.sub[s].key, s)
  /\ UNCHANGED <<now, locks, lockOp, lastAcquire, lastWrite, sideVars, apiKeys, row, dbKeys, sessions, retry, obj, conn, call>>

----------------------------------------------------------------------------
\* PrismaWhatsappRepository: the credential blob and the SignalKey rows of
\* all sessions, with their values.  (The supervisor model above follows one
\* session and keeps only whether its blob and keys exist.)

\* Bound of the repository model: calls started in one behaviour
MaxStoreCalls == 3

\* Session ids, SignalKey types and key ids
Sids == {1, 2}
KeyTypes == {"pre-key", "app-state-sync-key"}
StoreKeyIds == {"a", "b"}

\* JavaScript values: byte arrays, plain objects, strings, numbers, a
\* property set to undefined, protobuf message objects; JSON values are the
\* object / string / number / null ones
Null == [t |-> "null"]
Undefined == [t |-> "undefined"]
Str(s) == [t |-> "string", v |-> s]
Num(n) == [t |-> "number", v |-> n]
Buf(bytes) == [t |-> "Buffer", bytes |-> bytes]
U8(bytes) == [t |-> "Uint8Array", bytes |-> bytes]
Obj(fields) == [t |-> "object", f |-> fields]
ProtoMsg(fields) == [t |-> "proto", f |-> fields]

IsBytes(v) == v.t \in {"Buffer", "Uint8Array"}

\* Buffer.toString('base64'): the sextets of a base64 text, 64 being '='
Pad == 64

RECURSIVE toBase64(_)
toBase64(b) ==
  IF Len(b) = 0 THEN <<>>
  ELSE IF Len(b) = 1 THEN <<b[1] \div 4, (b[1] % 4) * 16, Pad, Pad>>
  ELSE IF Len(b) = 2
    THEN <<b[1] \div 4, (b[1] % 4) * 16 + b[2] \div 16, (b[2] % 16) * 4, Pad>>
  ELSE <<b[1] \div 4, (b[1] % 4) * 16 + b[2] \div 16, (b[2] % 16) * 4 + b[3] \div 64, b[3] % 64>>
         \o toBase64(SubSeq(b, 4, Len(b)))

\* Buffer.from(text, 'base64')
RECURSIVE fromBase64(_)
fromBase64(d) ==
  IF Len(d) < 4 THEN <<>>
  ELSE LET b1 == d[1] * 4 + d[2] \div 16
           b2 == (d[2] % 16) * 16 + d[3] \div 4
           b3 == (d[3] % 4) * 64 + d[4]
       IN IF d[3] = Pad THEN <<b1>>
          ELSE IF d[4] = Pad THEN <<b1, (d[2] % 16) * 16 + d[3] \div 4>>
          ELSE <<b1, b2, b3>> \o fromBase64(SubSeq(d, 5, Len(d)))

\* JSON.parse(JSON.stringify(value, BufferJSON.replacer)): a byte array
\* becomes { type: 'Buffer', data: <base64> }, a property that is undefined
\* is left out, a message object is written through its toJSON (bytes as
\* base64 text)
RECURSIVE toJsonValue(_)
toJsonValue(value) ==
  IF IsBytes(value)
    THEN Obj([type |-> Str("Buffer"), data |-> Str(toBase64(value.bytes))])
  ELSE IF value.t = "object"
    THEN Obj([k \in {k \in DOMAIN value.f : value.f[k].t # "undefined"} |-> toJsonValue(value.f[k])])
  ELSE IF value.t = "proto"
    THEN Obj([k \in DOMAIN value.f |-> Str(toBase64(value.f[k]))])
  ELSE value

IsBufferTag(o) ==
  /\ "type" \in DOMAIN o.f
  /\ o.f["type"].t = "string"
  /\ o.f["type"].v = "Buffer"

\* BufferJSON.reviver on one object: val = value.data || value.value
reviveBuffer(o) ==
  IF "data" \in DOMAIN o.f /\ o.f["data"].t = "string" /\ o.f["data"].v # <<>>
    THEN Buf(fromBase64(o.f["data"].v))
  ELSE Buf(<<>>)

\* JSON.parse(JSON.stringify(value)) with no reviver.
RECURSIVE fromJsonValuePlain(_)
fromJsonValuePlain(value) ==
  IF value.t = "object" THEN Obj([k \in DOMAIN value.f |-> fromJsonValuePlain(value.f[k])])
  ELSE value

\* fromJsonValue: null stays null, else JSON.parse(JSON.stringify(value),
\* BufferJSON.reviver)
RECURSIVE fromJsonValue(_)
fromJsonValue(value) ==
  IF value.t = "object"
    THEN LET o == Obj([k \in DOMAIN value.f |-> fromJsonValue(value.f[k])])
         IN IF IsBufferTag(o) THEN reviveBuffer(o) ELSE o
  ELSE value

\* normalizeValueForStorage: an app-state-sync-key goes through its toJSON
normalizeValueForStorage(category, value) ==
  IF category = "app-state-sync-key" /\ value.t = "proto" THEN toJsonValue(value) ELSE value

\* proto.Message.AppStateSyncKeyData.fromObject(value): base64 text back to bytes
fromObject(value) ==
  ProtoMsg([k \in DOMAIN value.f |->
              IF value.f[k].t = "string" THEN fromBase64(value.f[k].v) ELSE value.f[k].bytes])

\* Structural equality of JavaScript values: byte arrays by their bytes,
\* objects by their defined properties
RECURSIVE StructEq(_, _)
StructEq(a, b) ==
  IF IsBytes(a) \/ IsBytes(b) THEN IsBytes(a) /\ IsBytes(b) /\ a.bytes = b.bytes
  ELSE IF a.t # b.t THEN FALSE
  ELSE IF a.t = "object"
    THEN LET da == {k \in DOMAIN a.f : a.f[k].t # "undefined"}
             db == {k \in DOMAIN b.f : b.f[k].t # "undefined"}
         IN da = db /\ \A k \in da : StructEq(a.f[k], b.f[k])
  ELSE a = b

\* Credentials values and SignalKey values that callers pass
CredValues ==
  {Obj([noiseKey |-> Buf(<<0, 255>>), registrationId |-> Num(7)]),
   Obj([noiseKey |-> U8(<<1>>), pairingCode |-> Undefined,
        account |-> Obj([accountSignatureKey |-> Buf(<<>>)])]),
   Obj([noiseKey |-> Buf(<<255, 255, 255, 1>>), routingInfo |-> Buf(<<7, 8, 9>>)])}

KeyValues(type) ==
  IF type = "pre-key"
    THEN {Obj([public |-> Buf(<<1>>), private |-> Buf(<<255, 0>>)]),
          Obj([public |-> U8(<<0, 0, 255>>), private |-> Buf(<<>>)])}
    ELSE {ProtoMsg([keyData |-> <<1, 255>>])}

\* One entry of the `values` argument of setKeys (value Null: delete)
Entry(type, keyId, value) == [type |-> type, keyId |-> keyId, value |-> value]

SetKeysInputs ==
  {{Entry("pre-key", "a", v), Entry("pre-key", "b", w)} :
      v \in KeyValues("pre-key"), w \in KeyValues("pre-key") \cup {Null}}
    \cup {{Entry("pre-key", "a", Null), Entry("app-state-sync-key", "b", p)} :
            p \in KeyValues("app-state-sync-key")}
    \cup {{Entry("app-state-sync-key", "a", p)} : p \in KeyValues("app-state-sync-key")}

KeyRow(sessionId, type, keyId, value) ==
  [sessionId |-> sessionId, type |-> type, keyId |-> keyId, value |-> value]

\* rows of one session
RowsOf(rows, sessionId) == {r \in rows : r.sessionId = sessionId}

\* whatsappCredential.upsert on (sessionId, type, keyId)
upsert(rows, sessionId, type, keyId, storedValue) ==
  {r \in rows : ~(r.sessionId = sessionId /\ r.type = type /\ r.keyId = keyId)}
    \cup {KeyRow(sessionId, type, keyId, storedValue)}

\* whatsappCredential.deleteMany where { sessionId, type, keyId }
deleteKey(rows, sessionId, type, keyId) ==
  {r \in rows : ~(r.sessionId = sessionId /\ r.type = type /\ r.keyId = keyId)}

\* One of the statements setKeys pushes into `tasks`
runTask(rows, sessionId, e) ==
  IF e.value.t # "null"
    THEN upsert(rows, sessionId, e.type, e.keyId, toJsonValue(normalizeValueForStorage(e.type, e.value)))
    ELSE deleteKey(rows, sessionId, e.type, e.keyId)

RECURSIVE runAll(_, _, _)
runAll(rows, sessionId, tasks) ==
  IF tasks = {} THEN rows
  ELSE LET e == CHOOSE x \in tasks : TRUE
       IN runAll(runTask(rows, sessionId, e), sessionId, tasks \ {e})

\* loadCreds(sessionId)
loadCreds(creds, sessionId) ==
  IF creds[sessionId].t = "null" THEN Null ELSE fromJsonValue(creds[sessionId])

\* loadKeys ignoring the session of the rows.
loadKeysAnySession(rows, sessionId, type, ids) ==
  [id \in ids |->
     LET records == {r \in rows : r.type = type /\ r.keyId = id}
     IN IF records = {} THEN Null
        ELSE LET value == fromJsonValue((CHOOSE r \in records : TRUE).value)
             IN IF type = "app-state-sync-key" THEN fromObject(value) ELSE value]

\* loadKeys(sessionId, type, ids): null for every requested id, then the
\* value of each row found
loadKeys(rows, sessionId, type, ids) ==
  [id \in ids |->
     LET records == {r \in rows : r.sessionId = sessionId /\ r.type = type /\ r.keyId = id}
     IN IF records = {} THEN Null
        ELSE LET value == fromJsonValue((CHOOSE r \in records : TRUE).value)
             IN IF type = "app-state-sync-key" THEN fromObject(value) ELSE value]

\* The call of setKeys under way: the statements not yet executed, the rows
\* of the session when it was called and those it is to leave, whether it
\* has rejected, and whether clearSessionData ran on the session meanwhile
NoCall == [sessionId |-> 0, tasks |-> {}, before |-> {}, after |-> {}, failed |-> FALSE, disturbed |-> FALSE]

\* What the last call returned (reads) or did (clearSessionData)
NoOut == [kind |-> None, sessionId |-> 0, type |-> None, ids |-> {}, creds |-> Null, keys |-> <<>>, ok |-> TRUE]

\* creds: WhatsappSession.creds per session; keys: WhatsappCredential rows;
\* saved / written: what callers last passed to saveCreds / setKeys;
\* pending: the saveCreds updates issued by creds.update listeners and not
\* yet executed by the database
NoStore ==
  [creds |-> [s \in Sids |-> Null], keys |-> {}, op |-> NoCall, out |-> NoOut,
   saved |-> [s \in Sids |-> Null], written |-> {}, calls |-> 0, pending |-> {}]

StoreFrame ==
  UNCHANGED <<now, locks, lockOp, lastAcquire, lastWrite, apiKeys, req, random, app,
              row, dbKeys, sessions, retry, obj, conn, call, sse>>

CanCall == store.calls < MaxStoreCalls

\* saveCreds(sessionId, creds): one update
RepoSaveCreds(s, c) ==
  /\ CanCall
  /\ store' = [store EXCEPT !.creds[s] = toJsonValue(c), !.saved[s] = c, !.calls = @ + 1,
                            !.out = [NoOut EXCEPT !.kind = "saveCreds", !.sessionId = s]]
  /\ StoreFrame

\* loadCreds(sessionId)
RepoLoadCreds(s) ==
  /\ CanCall
  /\ store' = [store EXCEPT !.calls = @ + 1,
                            !.out = [NoOut EXCEPT !.kind = "loadCreds", !.sessionId = s,
                                                  !.creds = loadCreds(store.creds, s)]]
  /\ StoreFrame

\* loadKeys(sessionId, type, ids)
RepoLoadKeys(s, type, ids) ==
  /\ CanCall
  /\ store' = [store EXCEPT !.calls = @ + 1,
                            !.out = [NoOut EXCEPT !.kind = "loadKeys", !.sessionId = s, !.type = type,
                                                  !.ids = ids, !.keys = loadKeys(store.keys, s, type, ids)]]
  /\ StoreFrame

\* setKeys({ sessionId, values }): the statements are built and started,
\* then `await Promise.all(tasks)`
RepoSetKeys(s, entries) ==
  /\ CanCall
  /\ store.op.tasks = {}
  /\ store' = [store EXCEPT !.calls = @ + 1,
                 !.out = [NoOut EXCEPT !.kind = "setKeys", !.sessionId = s],
                 !.op = [NoCall EXCEPT !.sessionId = s, !.tasks = entries,
                                       !.before = RowsOf(store.keys, s),
                                       !.after = RowsOf(runAll(store.keys, s, entries), s)]]
  /\ StoreFrame

\* one upsert / deleteMany of the call executes
RepoSetKeysTask(e) ==
  /\ e \in store.op.tasks
  /\ LET s == store.op.sessionId IN
       store' = [store EXCEPT !.keys = runTask(@, s, e),
                   !.op.tasks = @ \ {e},
                   !.written = {w \in @ : ~(w.sessionId = s /\ w.type = e.type /\ w.keyId = e.keyId)}
                                 \cup (IF e.value.t = "null" THEN {} ELSE {KeyRow(s, e.type, e.keyId, e.value)})]
  /\ StoreFrame

\* one statement of the call rejects: Promise.all rejects and setKeys throws;
\* the other statements were started already and still execute
RepoSetKeysTaskFails(e) ==
  /\ e \in store.op.tasks
  /\ store' = [store EXCEPT !.op.tasks = @ \ {e}, !.op.failed = TRUE, !.out.ok = FALSE]
  /\ StoreFrame

\* An update issued by the n-th call
CredsWrite(s, c, n) == [sessionId |-> s, value |-> toJsonValue(c), n |-> n]

\* creds.update fires with the socket's creds now c: the listener calls
\* saveCreds(), which takes toJsonValue(creds) and issues the update
CredsUpdate(s, c) ==
  /\ CanCall
  /\ store.saved[s] # c
  /\ store' = [store EXCEPT !.calls = @ + 1, !.saved[s] = c,
                            !.pending = @ \cup {CredsWrite(s, c, store.calls + 1)},
                            !.out = [NoOut EXCEPT !.kind = "saveCreds", !.sessionId = s]]
  /\ StoreFrame

\* ... one of the updates under way is executed. The listener awaits nothing
\* and chains nothing, so which of them the database executes next is not
\* decided by this code
CredsWriteLands(w) ==
  /\ w \in store.pending
  /\ store' = [store EXCEPT !.creds[w.sessionId] = w.value, !.pending = @ \ {w}]
  /\ StoreFrame

\* clearSessionData(sessionId): $transaction([deleteMany, update creds = DbNull]),
\* committed as a whole or rolled back as a whole
RepoClearSessionData(s, ok) ==
  /\ CanCall
  /\ store' = IF ok
       THEN [store EXCEPT !.calls = @ + 1,
               !.keys = {r \in @ : r.sessionId # s},
               !.creds[s] = Null, !.saved[s] = Null,
               !.written = {w \in @ : w.sessionId # s},
               !.op.disturbed = @ \/ store.op.sessionId = s,
               !.out = [NoOut EXCEPT !.kind = "clear", !.sessionId = s]]
       ELSE [store EXCEPT !.calls = @ + 1,
               !.out = [NoOut EXCEPT !.kind = "clear", !.sessionId = s, !.ok = FALSE]]
  /\ StoreFrame

----------------------------------------------------------------------------
\* main() and App: warm-up, the cleanup callbacks and the signal handler

\* running: the process has not exited; registered: main has pushed the
\* releaseAllLocks callback behind the constructor's server.stop callback;
\* cleanup: where runCleanup stands; stopFailed: server.stop() rejected
NoApp == [running |-> TRUE, registered |-> FALSE, cleanup |-> "none", stopFailed |-> FALSE]

Running(p) == app[p].running

AppFrame == UNCHANGED <<now, lockOp, lastAcquire, lastWrite, apiKeys, req, store, random,
                        row, dbKeys, sessions, retry, conn, call, sse>>

\* main: `await service.warmSessions()` is called once app.start() returned
WarmCall(c, p) == Running(p) /\ ~app[p].registered /\ WarmStart(c, p)

\* the steps of the warm-up call while the process runs
WarmStep(c, p) ==
  /\ Running(p)
  /\ call[c].proc = p
  /\ InitAcquire(c, MaxConn) \/ InitAwaited(c) \/ ConnTimeout(c)

\* main: warmSessions() returned, app.registerCleanup(releaseAllLocks)
WarmReturned(c, p) ==
  /\ Running(p)
  /\ call[c].op = "warm" /\ call[c].proc = p /\ call[c].pc = "done"
  /\ ~app[p].registered
  /\ app' = [app EXCEPT ![p].registered = TRUE]
  /\ UNCHANGED <<locks, obj>> /\ AppFrame

\* SIGINT / SIGTERM (process.once): runCleanup starts with the first
\* callback, `await this.server.stop()`
Signal(p) ==
  /\ Running(p)
  /\ app[p].cleanup = "none"
  /\ app' = [app EXCEPT ![p].cleanup = "stop"]
  /\ UNCHANGED <<locks, obj>> /\ AppFrame

\* server.stop() settles (a rejection is logged); the loop goes on to the
\* next callback if one is registered by now, else runCleanup ends and
\* process.exit(0) is called
ServerStopped(p, ok) ==
  /\ Running(p)
  /\ app[p].cleanup = "stop"
  /\ app' = [app EXCEPT ![p].stopFailed = ~ok,
                         ![p].cleanup = IF app[p].registered THEN "release" ELSE "done",
                         ![p].running = app[p].registered]
  /\ UNCHANGED <<locks, obj>> /\ AppFrame

\* releaseAllLocks: `await lockRepository.releaseAll(ownerId).catch(() => undefined)`
ReleaseAllLocks(p, ok) ==
  /\ Running(p)
  /\ app[p].cleanup = "release"
  /\ locks' = IF ok THEN releaseAll(locks, lockOwnerId(p)) ELSE locks
  /\ app' = [app EXCEPT ![p].cleanup = "flags"]
  /\ UNCHANGED obj /\ AppFrame

\* ... then state.lockHeld = false for the states in the map; runCleanup
\* ends and process.exit(0) is called
ReleaseAllFlags(p) ==
  /\ Running(p)
  /\ app[p].cleanup = "flags"
  /\ obj' = [o \in ObjIds |-> IF sessions[p] = o THEN [obj[o] EXCEPT !.lockHeld = FALSE] ELSE obj[o]]
  /\ app' = [app EXCEPT ![p].cleanup = "done", ![p].running = FALSE]
  /\ UNCHANGED locks /\ AppFrame

----------------------------------------------------------------------------
\* Specifications

InitLock ==
  /\ now = 0
  /\ locks = {}
  /\ lockOp = [p \in Procs |-> NoOp]
  /\ lastAcquire = NoAcquire
  /\ lastWrite = NoWrite

\* no request under way, empty credential tables, the process started and warm
InitSide ==
  /\ req = [r \in ReqIds |-> NoReq]
  /\ store = NoStore
  /\ random = 0
  /\ app = [p \in Procs |-> NoApp]

InitSvc ==
  /\ InitSide
  /\ apiKeys = {ApiKeyRow(SvcKey, TRUE)}
  /\ row = [exists |-> FALSE, status |-> "DISCONNECTED", creds |-> "null"]
  /\ dbKeys = {}
  /\ sessions = [p \in Procs |-> 0]
  /\ retry = [p \in Procs |-> 0]
  /\ obj = [o \in ObjIds |-> FreeObj]
  /\ conn = [a \in ConnIds |-> FreeConn]
  /\ call = [c \in CallIds |-> FreeCall]
  /\ sse = NoBus

Init == InitLock /\ InitSvc

\* The lock table alone, used by several processes at once
NextLock ==
  \/ \E p \in Procs, k \in Keys : LockAcquireBegin(p, k)
  \/ \E p \in Procs : LockAcquireTx(p)
  \/ \E p \in Procs : LockAcquireConflict(p)
  \/ \E p \in Procs, k \in Keys : LockTouch(p, k)
  \/ \E p \in Procs, k \in Keys : LockRelease(p, k)
  \/ \E p \in Procs : LockReleaseAll(p)
  \/ LockTick

SpecLock == Init /\ [][NextLock]_vars

\* Another process takes or gives up the lock of the service key (its own
\* initializeSocket / logout / shutdown)
ForeignAcquire(q) ==
  /\ locks' = acquire(locks, SvcKey, lockOwnerId(q), lockTtlMs, now).rows
  /\ locks' # locks
  /\ UNCHANGED <<now, apiKeys, sse, lastWrite, sideVars, lockOp, lastAcquire, row, dbKeys, sessions, retry, obj, call>> /\ conn' = conns

ForeignRelease(q) ==
  /\ locks' = release(locks, SvcKey, lockOwnerId(q))
  /\ locks' # locks
  /\ UNCHANGED <<now, apiKeys, sse, lastWrite, sideVars, lockOp, lastAcquire, row, dbKeys, sessions, retry, obj, call>> /\ conn' = conns

\* Steps of the tasks
InitStep(c, maxConn) ==
  \/ InitAcquire(c, maxConn)
  \/ InitTouchAwait(c)
  \/ InitAwaited(c)

\* createSocket from buildAuthState to the socket or the failure
CreateStep(a) ==
  \/ CsLoad(a)
  \/ \E ok \in BOOLEAN : CsMake(a, ok)
  \/ CsFail(a)
  \/ CsRelease(a)

AttemptStep(a) ==
  \/ CreateStep(a)
  \/ RcAcquire(a)

EventStep(a) ==
  \/ BindUser(a)
  \/ EvQr(a)
  \/ HQr(a)
  \/ EvOpen(a)
  \/ HOpen(a)
  \/ \E lo \in BOOLEAN : EvClose(a, lo)
  \/ HClose(a)

LogoutStep(c) ==
  \/ Logout1(c)
  \/ Logout2(c)
  \/ Logout3(c)
  \/ Logout4(c)

\* One process serving two getQr calls, with the events of the sockets they
\* construct
Next ==
  \/ \E c \in {"c1", "c2"} : GetQrStart(c, "p1")
  \/ \E c \in {"c1", "c2"} : InitStep(c, MaxConn)
  \/ \E c \in {"c1", "c2"} : QrTimeout(c)
  \/ \E a \in ConnIds : CreateStep(a)
  \/ \E a \in ConnIds : EventStep(a)

Spec == Init /\ [][Next]_vars

\* Two processes, each serving one getQr call for the same key, while the
\* clock advances
NextMulti ==
  \/ GetQrStart("c1", "p1")
  \/ GetQrStart("c2", "p2")
  \/ \E c \in {"c1", "c2"} : InitAcquire(c, MaxConn) \/ InitAwaited(c)
  \/ \E c \in {"c1", "c2"} : QrTimeout(c)
  \/ \E a \in ConnIds : CreateStep(a)
  \/ \E a \in ConnIds : BindUser(a) \/ EvQr(a) \/ HQr(a) \/ EvOpen(a) \/ HOpen(a)
  \/ SvcTick

SpecMulti == Init /\ [][NextMulti]_vars

\* One process: a getQr call, a logout call, the sockets' events and the
\* reconnect timer
NextLogout ==
  \/ GetQrStart("c1", "p1")
  \/ LogoutStart("c3", "p1")
  \/ InitAcquire("c1", MaxConn) \/ InitAwaited("c1")
  \/ QrTimeout("c1")
  \/ LogoutStep("c3")
  \/ \E a \in ConnIds : AttemptStep(a)
  \/ \E a \in ConnIds : EventStep(a)
  \/ \E o \in ObjIds : TimerFire(o, MaxConn)

SpecLogout == Init /\ [][NextLogout]_vars

\* One process: a getQr call, a logout call, the sockets' events and the
\* writes of the auth state
NextCreds ==
  \/ GetQrStart("c1", "p1")
  \/ LogoutStart("c3", "p1")
  \/ InitAcquire("c1", MaxConn) \/ InitAwaited("c1")
  \/ QrTimeout("c1")
  \/ LogoutStep("c3")
  \/ \E a \in ConnIds : CreateStep(a)
  \/ \E a \in ConnIds : EventStep(a)
  \/ \E a \in ConnIds : EvCredsUpdate(a) \/ SaveCreds(a)
  \/ \E a \in ConnIds, k \in KeyIds : KeysSet(a, k)

SpecCreds == Init /\ [][NextCreds]_vars

\* One process: a getQr call, the sockets' events, the reconnect timer, and
\* another process competing for the lock
NextReconnect ==
  \/ GetQrStart("c1", "p1")
  \/ InitAcquire("c1", MaxConn) \/ InitAwaited("c1")
  \/ QrTimeout("c1")
  \/ \E a \in ConnIds : AttemptStep(a)
  \/ \E a \in ConnIds : EventStep(a)
  \/ \E o \in ObjIds : TimerFire(o, MaxConn)
  \/ ForeignAcquire("p2")
  \/ ForeignRelease("p2")

SpecReconnect == Init /\ [][NextReconnect]_vars

\* The WhatsappSession row a process may find at start-up: none, a fresh or
\* logged-out row without credentials, or a row left by an earlier run
DbRows ==
  {[exists |-> FALSE, status |-> "DISCONNECTED", creds |-> "null"]}
    \cup {[exists |-> TRUE, status |-> s, creds |-> "null"] : s \in {"DISCONNECTED", "LOGGED_OUT", "ERROR"}}
    \cup {[exists |-> TRUE, status |-> s, creds |-> "creds"] :
             s \in {"CONNECTED", "DISCONNECTED", "QR", "ERROR"}}

InitDb ==
  /\ InitLock
  /\ InitSide
  /\ apiKeys = {ApiKeyRow(SvcKey, TRUE)}
  /\ row \in DbRows
  /\ dbKeys = {}
  /\ sessions = [p \in Procs |-> 0]
  /\ retry = [p \in Procs |-> 0]
  /\ obj = [o \in ObjIds |-> FreeObj]
  /\ conn = [a \in ConnIds |-> FreeConn]
  /\ call = [c \in CallIds |-> FreeCall]
  /\ sse = NoBus

\* One process over a database left by earlier runs: a getQr or sendText
\* call, a logout call, the sockets' events, and a further getQr or sendText
\* call that arrives while the persisted status is LOGGED_OUT
NextGate ==
  \/ GetQrStart("c1", "p1")
  \/ \E v \in BOOLEAN : SendTextStart("c1", "p1", v)
  \/ LogoutStart("c3", "p1")
  \/ GetQrLoggedOut("c2", "p1")
  \/ \E v \in BOOLEAN : SendTextLoggedOut("c2", "p1", v)
  \/ InitAcquire("c1", MaxConn) \/ InitAwaited("c1")
  \/ QrTimeout("c1")
  \/ ConnTimeout("c1")
  \/ \E ok \in BOOLEAN : SendDone("c1", ok)
  \/ LogoutStep("c3")
  \/ \E a \in ConnIds : CreateStep(a)
  \/ \E a \in ConnIds : EventStep(a)

SpecGate == InitDb /\ [][NextGate]_vars

\* One process over a database left by earlier runs: a call that waits
\* (getQr, sendText or warmSessions), a logout call, the sockets' events and
\* the waiters' deadline timers
NextWait ==
  \/ GetQrStart("c1", "p1")
  \/ \E v \in BOOLEAN : SendTextStart("c1", "p1", v)
  \/ WarmStart("c1", "p1")
  \/ LogoutStart("c3", "p1")
  \/ InitAcquire("c1", MaxConn) \/ InitAwaited("c1")
  \/ QrTimeout("c1")
  \/ ConnTimeout("c1")
  \/ \E ok \in BOOLEAN : SendDone("c1", ok)
  \/ LogoutStep("c3")
  \/ \E a \in ConnIds : CreateStep(a)
  \/ \E a \in ConnIds : EventStep(a)

SpecWait == InitDb /\ [][NextWait]_vars

\* One process over a database left by earlier runs: a getQr call, a logout
\* call, a getConnectionStatus call and the sockets' events
NextStatus ==
  \/ GetQrStart("c1", "p1")
  \/ LogoutStart("c3", "p1")
  \/ StatusStart("c4", "p1")
  \/ StatusDone("c4")
  \/ InitAcquire("c1", MaxConn) \/ InitAwaited("c1")
  \/ QrTimeout("c1")
  \/ LogoutStep("c3")
  \/ \E a \in ConnIds : CreateStep(a)
  \/ \E a \in ConnIds : EventStep(a)

SpecStatus == InitDb /\ [][NextStatus]_vars

\* The lock row of the service key belongs to another process
OwnedElsewhere(p) == \E r \in locks : r.apiKey = SvcKey /\ r.ownerId # lockOwnerId(p)

\* Nothing of the service is in progress: no call in flight, no attempt
\* pending, no handler or save running, no timer armed.  Every timer of the
\* service (QR and connection deadlines, reconnect backoff) fires within a
\* minute, so minutes pass only in such states.
Quiet ==
  /\ \A c \in CallIds : call[c].pc \in {"idle", "done"}
  /\ \A a \in ConnIds :
       /\ conn[a].pc \in {"unused", "live", "closed", "failed"}
       /\ ~conn[a].save
       /\ "run" \notin {conn[a].hQr, conn[a].hOpen, conn[a].hClose}
  /\ \A o \in ObjIds : ~obj[o].reconnectTimer

QuietTick == Quiet /\ SvcTick

\* Another process takes the lock of the service key while this one is quiet
QuietForeignAcquire(q) == Quiet /\ ForeignAcquire(q)

\* sendText arriving while the lock row belongs to another process
SendTextLockedElsewhere(c, p, valid) == OwnedElsewhere(p) /\ SendTextStart(c, p, valid)

\* One process serving a getQr call and, once another process owns the
\* lock, a sendText call; the sockets pair and open, and the clock advances
\* while the process is quiet
NextSteal ==
  \/ GetQrStart("c1", "p1")
  \/ \E v \in BOOLEAN : SendTextLockedElsewhere("c2", "p1", v)
  \/ \E c \in {"c1", "c2"} : InitAcquire(c, MaxConn) \/ InitAwaited(c)
  \/ QrTimeout("c1")
  \/ ConnTimeout("c2")
  \/ \E ok \in BOOLEAN : SendDone("c2", ok)
  \/ \E a \in ConnIds : CreateStep(a)
  \/ \E a \in ConnIds : BindUser(a) \/ EvOpen(a) \/ HOpen(a)
  \/ QuietTick
  \/ QuietForeignAcquire("p2")

SpecSteal == Init /\ [][NextSteal]_vars

\* One process over a database left by earlier runs: a sendText call, a
\* logout call, the sockets' pairing, open and close events, the reconnect
\* timer and the deadline of the connection-waiter
NextSend ==
  \/ \E v \in BOOLEAN : SendTextStart("c1", "p1", v)
  \/ LogoutStart("c3", "p1")
  \/ InitAcquire("c1", MaxConn) \/ InitAwaited("c1")
  \/ ConnTimeout("c1")
  \/ \E ok \in BOOLEAN : SendDone("c1", ok)
  \/ LogoutStep("c3")
  \/ \E a \in ConnIds : AttemptStep(a)
  \/ \E a \in ConnIds : BindUser(a) \/ EvOpen(a) \/ HOpen(a) \/ HClose(a)
  \/ \E a \in ConnIds, lo \in BOOLEAN : EvClose(a, lo)
  \/ \E o \in ObjIds : TimerFire(o, MaxConn)

SpecSend == InitDb /\ [][NextSend]_vars

\* The key is deactivated while no call is in flight and no connect attempt
\* is pending
DeactivateIdle ==
  /\ \A c \in CallIds : call[c].pc \in {"idle", "done"}
  /\ \A a \in ConnIds : conn[a].pc \notin PendingPcs
  /\ Deactivate

\* One process over a database left by earlier runs: a getQr call or the
\* warm-up of process start, the deactivation of the key, the sockets'
\* events and the reconnect timer
NextDeactivate ==
  \/ GetQrStart("c1", "p1")
  \/ WarmStart("c1", "p1")
  \/ DeactivateIdle
  \/ InitAcquire("c1", MaxConn) \/ InitAwaited("c1")
  \/ QrTimeout("c1")
  \/ ConnTimeout("c1")
  \/ \E a \in ConnIds : AttemptStep(a)
  \/ \E a \in ConnIds : EventStep(a)
  \/ \E o \in ObjIds : TimerFire(o, MaxConn)

SpecDeactivate == InitDb /\ [][NextDeactivate]_vars

\* The session of process p is in status ERROR after a failed construction
\* and no attempt is under way
Failed(p) ==
  /\ sessions[p] # 0
  /\ obj[sessions[p]].status = "ERROR"
  /\ ~AttemptPending(sessions[p])

\* getQr arriving for a session whose socket construction failed
GetQrAfterError(c, p) == Failed(p) /\ GetQrStart(c, p)

\* One process: a getQr call, the sockets' events and the reconnect timer,
\* and a further getQr call once a construction has failed
NextRecover ==
  \/ GetQrStart("c1", "p1")
  \/ GetQrAfterError("c2", "p1")
  \/ \E c \in {"c1", "c2"} : InitStep(c, MaxConn)
  \/ \E c \in {"c1", "c2"} : QrTimeout(c)
  \/ \E a \in ConnIds : AttemptStep(a)
  \/ \E a \in ConnIds : EventStep(a)
  \/ \E o \in ObjIds : TimerFire(o, MaxConn)

SpecRecover == Init /\ [][NextRecover]_vars

\* One process: a getQr call and the sockets' events, with store operations
\* that may reject inside the handlers
NextStore ==
  \/ GetQrStart("c1", "p1")
  \/ InitAcquire("c1", MaxConn) \/ InitAwaited("c1")
  \/ QrTimeout("c1")
  \/ \E a \in ConnIds : CreateStep(a)
  \/ \E a \in ConnIds : EventStep(a)
  \/ \E a \in ConnIds : HQrStatusFails(a) \/ HCloseClearFails(a) \/ CsFailStatusFails(a)

SpecStore == Init /\ [][NextStore]_vars

\* The event bus alone: clients of two keys attach with the snapshot the
\* stream route gives them, their transports fail and events are published
NextBus ==
  \/ \E s \in Subs, k \in Keys, init \in {"status", "qr"} : Subscribe(s, k, init)
  \/ \E k \in Keys : Publish(k, "status", "info") \/ Publish(k, "qr", QrPayload)
  \/ \E s \in Subs, mode \in {"throws", "ended"} : TransportFails(s, mode)
  \/ \E s \in Subs : TransportClosed(s)

SpecBus == Init /\ [][NextBus]_vars

\* The key registry: session routes checking keys, the admin routes with and
\* without the secret, and generate's attempts, over tables left by earlier
\* requests
RegTables ==
  {{}, {ApiKeyRow("g1", TRUE)}, {ApiKeyRow("g1", FALSE)},
   {ApiKeyRow("g1", TRUE), ApiKeyRow("g2", TRUE)},
   {ApiKeyRow("g1", FALSE), ApiKeyRow("g2", TRUE)}}

InitRegistry ==
  /\ InitLock
  /\ InitSide
  /\ apiKeys \in RegTables
  /\ row = [exists |-> FALSE, status |-> "DISCONNECTED", creds |-> "null"]
  /\ dbKeys = {}
  /\ sessions = [p \in Procs |-> 0]
  /\ retry = [p \in Procs |-> 0]
  /\ obj = [o \in ObjIds |-> FreeObj]
  /\ conn = [a \in ConnIds |-> FreeConn]
  /\ call = [c \in CallIds |-> FreeCall]
  /\ sse = NoBus

NextRegistry ==
  \/ \E r \in ReqIds, key \in KeyInputs : AssertActiveCall(r, key)
  \/ \E r \in ReqIds, kind \in {"list", "create"}, header \in Headers :
       AdminRequest(r, kind, header, Plain(""))
  \/ \E r \in ReqIds, header \in Headers, key \in KeyInputs :
       AdminRequest(r, "deactivate", header, key)
  \/ \E r \in ReqIds, key \in GenKeys, failed \in BOOLEAN : GenerateAttempt(r, key, failed)

SpecRegistry == InitRegistry /\ [][NextRegistry]_vars

\* The repository of credentials and SignalKey rows, called for two sessions
InitRepo ==
  /\ InitLock
  /\ InitSvc

NextRepo ==
  \/ \E s \in Sids, c \in CredValues : RepoSaveCreds(s, c)
  \/ \E s \in Sids : RepoLoadCreds(s)
  \/ \E s \in Sids, type \in KeyTypes, ids \in SUBSET StoreKeyIds : RepoLoadKeys(s, type, ids)
  \/ \E s \in Sids, entries \in SetKeysInputs : RepoSetKeys(s, entries)
  \/ \E e \in UNION SetKeysInputs : RepoSetKeysTask(e)
  \/ \E e \in UNION SetKeysInputs : RepoSetKeysTaskFails(e)
  \/ \E s \in Sids, ok \in BOOLEAN : RepoClearSessionData(s, ok)

SpecRepo == InitRepo /\ [][NextRepo]_vars


\* Attempts already counted for the key when the behaviour starts (logout
\* and failed attempts leave the counter as it is)
MaxAttempt == 6

\* One process whose counter stands anywhere up to MaxAttempt: a getQr call,
\* the sockets' events, the reconnect timer with its jitter, and another
\* process competing for the lock
InitBackoff ==
  /\ InitLock
  /\ InitSide
  /\ apiKeys = {ApiKeyRow(SvcKey, TRUE)}
  /\ row = [exists |-> FALSE, status |-> "DISCONNECTED", creds |-> "null"]
  /\ dbKeys = {}
  /\ sessions = [p \in Procs |-> 0]
  /\ \E n \in 0..MaxAttempt : retry = [p \in Procs |-> IF p = "p1" THEN n ELSE 0]
  /\ obj = [o \in ObjIds |-> FreeObj]
  /\ conn = [a \in ConnIds |-> FreeConn]
  /\ call = [c \in CallIds |-> FreeCall]
  /\ sse = NoBus

NextBackoff ==
  \/ GetQrStart("c1", "p1")
  \/ InitAcquire("c1", MaxConn) \/ InitAwaited("c1")
  \/ QrTimeout("c1")
  \/ \E a \in ConnIds : AttemptStep(a)
  \/ \E a \in ConnIds : EventStep(a)
  \/ \E o \in ObjIds : TimerFire(o, MaxConn)
  \/ \E j \in Jitter : Random(j)
  \/ ForeignAcquire("p2")
  \/ ForeignRelease("p2")

SpecBackoff == InitBackoff /\ [][NextBackoff]_vars

\* the steps of the sockets of the process while it runs
SocketStep(a, p) ==
  /\ Running(p)
  /\ conn[a].proc = p
  /\ CreateStep(a) \/ EventStep(a)

\* One process from the return of app.start(): the warm-up call over a
\* database left by earlier runs, the sockets' events, a signal at any moment
NextShutdown ==
  \/ WarmCall("c1", "p1")
  \/ WarmStep("c1", "p1")
  \/ \E a \in ConnIds : SocketStep(a, "p1")
  \/ WarmReturned("c1", "p1")
  \/ Signal("p1")
  \/ \E ok \in BOOLEAN : ServerStopped("p1", ok)
  \/ \E ok \in BOOLEAN : ReleaseAllLocks("p1", ok)
  \/ ReleaseAllFlags("p1")

SpecShutdown == InitDb /\ [][NextShutdown]_vars

\* logout arriving when a getQr call has returned
LogoutAfterGetQr(c, d, p) == call[d].op = "getQr" /\ call[d].pc = "done" /\ LogoutStart(c, p)

\* getQr arriving when a logout call has returned
GetQrAfterLogout(c, d, p) == call[d].op = "logout" /\ call[d].pc = "done" /\ GetQrStart(c, p)

\* One process: a getQr call, a logout call once it has returned, a further
\* getQr call once the logout has returned, the sockets' events and the
\* reconnect timers
NextRetimer ==
  \/ GetQrStart("c1", "p1")
  \/ LogoutAfterGetQr("c3", "c1", "p1")
  \/ GetQrAfterLogout("c2", "c3", "p1")
  \/ \E c \in {"c1", "c2"} : InitAcquire(c, MaxConn) \/ InitAwaited(c)
  \/ LogoutStep("c3")
  \/ \E a \in ConnIds : AttemptStep(a)
  \/ \E a \in ConnIds : EventStep(a)
  \/ \E o \in ObjIds : TimerFire(o, MaxConn)

SpecRetimer == Init /\ [][NextRetimer]_vars

\* The event bus with its heartbeat timer
NextBeat ==
  \/ \E s \in Subs, k \in Keys, init \in {"status", "qr"} : Subscribe(s, k, init)
  \/ \E k \in Keys : Publish(k, "status", "info") \/ Publish(k, "qr", QrPayload)
  \/ \E s \in Subs, mode \in {"throws", "ended"} : TransportFails(s, mode)
  \/ \E s \in Subs : TransportClosed(s)
  \/ Heartbeat

SpecBeat == Init /\ [][NextBeat]_vars

\* The credential blob under creds.update events that follow each other
\* before the earlier writes have settled
NextRotate ==
  \/ \E s \in Sids, c \in CredValues : CredsUpdate(s, c)
  \/ \E s \in Sids, c \in CredValues, n \in 1..MaxStoreCalls : CredsWriteLands(CredsWrite(s, c, n))
  \/ \E s \in Sids : RepoLoadCreds(s)

SpecRotate == InitRepo /\ [][NextRotate]_vars

----------------------------------------------------------------------------
\* The routes of the WhatsApp module: each awaits one call of the controller
\* and turns its result or its failure into a response

\* The Error a failure of the Supervisor is thrown as
thrown(e) ==
  CASE e = "403" -> [message |-> "API key not registered", statusCode |-> 0]
    [] e = "404" -> [message |-> "Whatsapp session not found", statusCode |-> 0]
    [] e = "409" -> [message |-> "Session is logged out", statusCode |-> 409]
    [] e = "423" -> [message |-> "Session is handled by another instance", statusCode |-> 423]
    [] e = "503" -> [message |-> "Session not connected", statusCode |-> 503]
    [] e = "400" -> [message |-> "Invalid 'to'", statusCode |-> 400]
    [] OTHER -> [message |-> e, statusCode |-> 0]

Envelope(status, message) == [status |-> status, message |-> message]

handleError(error) ==
  IF error.message = "Whatsapp session not found" THEN Envelope(404, error.message)
  ELSE IF error.message = "API key not registered" THEN Envelope(403, error.message)
  ELSE Envelope(500, "Internal server error")

\* the catch block of POST /message/:apiKey/send
sendError(error) ==
  IF error.statusCode = 503 THEN Envelope(503, "Session not connected")
  ELSE IF error.message = "API key not registered" THEN Envelope(403, error.message)
  ELSE IF error.message = "Whatsapp session not found" THEN Envelope(404, error.message)
  ELSE Envelope(500, "Internal server error")

\* The routes that call the operation op of the Supervisor
RoutesOf(op) ==
  CASE op = "getQr" -> {"qr"}
    [] op = "logout" -> {"logout"}
    [] op = "status" -> {"status", "stream"}
    [] op = "sendText" -> {"send"}
    [] OTHER -> {}

Routes == {"qr", "logout", "status", "stream", "send"}

\* controller.currentQr(apiKey) of the stream route
currentQr(p) == IF sessions[p] = 0 THEN None ELSE obj[sessions[p]].qr

\* The handler of a route resumes after its call c has settled: the response,
\* and for the stream route the subscription of the transport s
RouteReply(c, route, s) ==
  /\ call[c].pc = "done"
  /\ call[c].reply = NoAnswer
  /\ route \in RoutesOf(call[c].op)
  /\ LET res == call[c].res
         r == IF res.ok THEN Envelope(200, IF route = "stream" THEN "raw" ELSE "success")
              ELSE IF route = "send" THEN sendError(thrown(res.error))
              ELSE handleError(thrown(res.error))
         init == IF currentQr(call[c].proc) = None THEN "status" ELSE "qr"
     IN /\ call' = [call EXCEPT ![c].reply = [route |-> route, status |-> r.status, message |-> r.message]]
        /\ IF route = "stream" /\ res.ok
             THEN /\ sse.sub[s].key = None
                  /\ sse' = attachClient(
                       [sse EXCEPT !.sub[s] =
                          [NoSub EXCEPT !.key = SvcKey, !.at = Len(sse.log), !.init = init,
                                        !.frames = <<Frame("comment", 0, "connected")>>]],
                       SvcKey, s, init)
             ELSE /\ s = "s1"
                  /\ sse' = sse
  /\ UNCHANGED <<now, locks, lockOp, lastAcquire, lastWrite, sideVars, apiKeys, row, dbKeys, sessions, retry, obj>>
  /\ conn' = conns

\* One process behind the routes: a send, a status or stream request, the
\* socket's connection, another instance taking the lock, the key's
\* deactivation
NextRoutes ==
  \/ SendTextStart("c2", "p1", TRUE)
  \/ StatusStart("c4", "p1")
  \/ StatusDone("c4")
  \/ InitAcquire("c2", MaxConn) \/ InitAwaited("c2")
  \/ ConnTimeout("c2")
  \/ \E ok \in BOOLEAN : SendDone("c2", ok)
  \/ \E a \in ConnIds : CreateStep(a)
  \/ \E a \in ConnIds : BindUser(a) \/ EvOpen(a) \/ HOpen(a)
  \/ QuietForeignAcquire("p2")
  \/ DeactivateIdle
  \/ \E c \in {"c2", "c4"}, route \in Routes, s \in Subs : RouteReply(c, route, s)

SpecRoutes == InitDb /\ [][NextRoutes]_vars

----------------------------------------------------------------------------
\* Properties of the session lock

\* C3: lease exclusivity.  Under any interleaving of acquire, touch, release
\* and releaseAll by several processes there is at most one SessionLock row
\* per apiKey (so at most one owner of a non-stale lock), and an acquire that
\* answers true never met a row of another process still within the TTL.
LeaseExclusive ==
  /\ \A k \in Keys : Cardinality(findUnique(locks, k)) <= 1
  /\ lastAcquire.ok => ~lastAcquire.foreignFresh

\* an acquire took over the row of another process (which had gone stale)
LeaseTakenOver == lastAcquire.ok /\ lastAcquire.foreign

----------------------------------------------------------------------------
\* Properties of the supervisor

\* C1: in one process at most one upstream socket of the key is live
\* (constructed and not yet closed) at any time; a getQr made while a socket
\* exists without a bound user constructs no second one.
OneSocketPerProcess == \A p \in Procs : Cardinality(LiveSockets(p)) <= 1

\* C2: across the processes sharing the lock table no key has two live
\* sockets at once, also when a connected session stays idle for longer
\* than the TTL: sockets that are live together belong to one process.
NoSocketsInTwoProcesses ==
  \A a, b \in ConnIds : Live(a) /\ Live(b) => conn[a].proc = conn[b].proc

\* The step is the return of call c of operation op
Returns(c, op) == call[c].pc # "done" /\ call'[c].pc = "done" /\ call'[c].op = op

\* The session of process p is connected: its ManagedSession has a live
\* socket with a bound user
IsConnected(p) ==
  /\ sessions[p] # 0
  /\ HasUser(obj[sessions[p]])
  /\ Live(obj[sessions[p]].socket)

\* C4: for a session that is not LOGGED_OUT getQr returns {status: CONNECTED}
\* exactly when the session is connected at the return (live socket with a
\* bound user); otherwise it answers with a QR or fails.
GetQrConnectedIffConnected ==
  [][\A c \in CallIds, p \in Procs :
       Returns(c, "getQr") /\ call'[c].proc = p /\ call'[c].res.status # "LOGGED_OUT"
         => ((call'[c].res.ok /\ call'[c].res.status = "CONNECTED") <=> IsConnected(p)')]_vars

\* a logout call has returned successfully
LogoutReturned == \E c \in CallIds : call[c].op = "logout" /\ call[c].pc = "done" /\ call[c].res.ok

\* C5: once logout has returned the persisted status is and stays
\* LOGGED_OUT and no socket is constructed, whatever events, armed timers
\* or running handlers come afterwards.
AfterLogoutNoSocket ==
  [][/\ LogoutReturned' => row'.status = "LOGGED_OUT"
     /\ LogoutReturned => \A a \in ConnIds : conn'[a].pc = "live" => conn[a].pc = "live"]_vars

\* C6: once logout has returned the session row exists, its credential blob
\* is null and it has no SignalKey rows, and this stays so.
AfterLogoutNoCreds == LogoutReturned => row.exists /\ row.creds = "null" /\ dbKeys = {}

\* C8: after a close that is not a loggedOut close reconnecting goes on:
\* while the session has been scheduled for a reconnect (counter above 0),
\* is not logged out, has no socket and no close handler still running, its
\* timer is armed or an attempt is under way.
ReconnectKeepsGoing ==
  \A p \in Procs :
    LET o == sessions[p] IN
      (/\ o # 0
       /\ retry[p] > 0
       /\ obj[o].status # "LOGGED_OUT"
       /\ obj[o].socket = 0
       /\ LiveSockets(p) = {}
       /\ \A a \in ConnIds : conn[a].hClose # "run")
        => obj[o].reconnectTimer \/ AttemptPending(o)

\* the step starts call c of operation op
Starts(c, op) == call[c].op = None /\ call'[c].op = op

\* C7: when the persisted status is LOGGED_OUT, getQr returns
\* {status: LOGGED_OUT} with no qr and sendText fails with 409, and neither
\* takes the lock, creates a ManagedSession or constructs a socket.
LoggedOutIsRefused ==
  [][\A c \in CallIds :
       row.exists /\ row.status = "LOGGED_OUT" /\ (Starts(c, "getQr") \/ Starts(c, "sendText"))
         => /\ call'[c].pc = "done"
            /\ Starts(c, "getQr") => call'[c].res = Ok("LOGGED_OUT", None, FALSE)
            /\ Starts(c, "sendText") => call'[c].res = Err("409")
            /\ locks' = locks
            /\ sessions' = sessions
            /\ obj' = obj
            /\ \A a \in ConnIds : conn'[a].pc = conn[a].pc]_vars

\* getQr has answered LOGGED_OUT and sendText has failed with 409
LoggedOutRefusedBoth ==
  /\ \E c \in CallIds : call[c].op = "getQr" /\ call[c].res = Ok("LOGGED_OUT", None, FALSE)
  /\ \E c \in CallIds : call[c].op = "sendText" /\ call[c].res = Err("409")

\* call c is a pending QR-waiter or connection-waiter
Waiting(c) == call[c].pc \in {"waitQr", "waitConn"}

\* C9: every QR-waiter and every connection-waiter is settled no later than
\* the firing of its deadline timer: while a waiter is pending its timer is
\* armed, and the step that takes the timer away settles the waiter; so
\* under every interleaving of qr, open and close events, logout and
\* construction failure no waiter stays pending beyond its deadline.
WaitersSettleByDeadline ==
  [][\A c \in CallIds :
       /\ Waiting(c)' => call'[c].timer
       /\ Waiting(c) /\ ~call'[c].timer => ~Waiting(c)']_vars

\* a QR-waiter dropped from state.qrWaiters without being settled (by an
\* open event or by logout) is still pending
WaiterDroppedUnsettled ==
  \E c \in CallIds : call[c].pc = "waitQr" /\ c \notin obj[call[c].obj].qrWaiters

\* C10: getConnectionStatus fails with 'Whatsapp session not found' when the
\* key has no session row; otherwise connected is true exactly when the
\* process's ManagedSession has a live socket with a bound user, and status
\* is CONNECTED when connected, else the ManagedSession's status when there
\* is one, else the status of the row the call read.
StatusAnswer ==
  [][\A c \in CallIds, p \in Procs :
       Returns(c, "status") /\ call'[c].proc = p
         => IF call[c].op = None
              THEN ~row.exists /\ call'[c].res = Err("404")
              ELSE call'[c].res =
                     Ok(IF IsConnected(p) THEN "CONNECTED"
                        ELSE IF sessions[p] # 0 THEN obj[sessions[p]].status
                        ELSE call[c].rowStatus,
                        None, IsConnected(p))]_vars

\* getConnectionStatus has answered connected = true
StatusAnsweredConnected ==
  \E c \in CallIds : call[c].op = "status" /\ call[c].res.ok /\ call[c].res.connected

\* C11: sendText on process P fails with 423 and sends nothing whenever the
\* lock of the key is owned by another process and P has no live socket with
\* a bound user, both when P's acquire was refused and when P had the lock
\* and it was taken over afterwards.
SendTextLockedFails423 ==
  [][\A c \in CallIds, p \in Procs :
       /\ call[c].op = "sendText" /\ call[c].proc = p /\ call[c].pc \notin {"send", "done"}
       /\ OwnedElsewhere(p) /\ OwnedElsewhere(p)'
       /\ ~IsConnected(p) /\ ~IsConnected(p)'
       => /\ call'[c].pc # "send"
          /\ call'[c].pc = "done" => call'[c].res = Err("423")]_vars

\* the step finishes the handling of an open event (it resolves the
\* connection-waiters)
OpenHandled == \E a \in ConnIds : conn[a].hOpen = "run" /\ conn'[a].hOpen = "done"

\* C12: sendText invokes the upstream send only if, after its wait, the
\* ManagedSession's socket has a bound user; when the wait times out or is
\* rejected by a close or a logout, or the socket has no bound user after
\* the wait, the call fails with 503 and nothing is sent.
SendOnlyWhenBound ==
  [][\A c \in CallIds, o \in ObjIds :
       call[c].op = "sendText" /\ call[c].obj = o
         => /\ call[c].pc # "send" /\ call'[c].pc = "send" => HasUser(obj[o])'
            /\ call[c].pc = "waitConn" /\ call'[c].pc # "waitConn"
                 => IF OpenHandled /\ HasUser(obj[o])'
                      THEN IF call[c].valid THEN call'[c].pc = "send"
                           ELSE call'[c].pc = "done" /\ call'[c].res = Err("400")
                      ELSE call'[c].pc = "done" /\ call'[c].res = Err("503")]_vars

\* a sendText call is in the upstream send: an open event was handled and
\* the session's socket has a bound user
SendInvokedBound ==
  \E c \in CallIds, a \in ConnIds :
    /\ call[c].op = "sendText" /\ call[c].pc = "send"
    /\ conn[a].hOpen = "done" /\ obj[call[c].obj].socket = a /\ conn[a].user

\* C13: sendText rejects a recipient that does not normalise to 8 to 15
\* digits with 400 before it initialises a socket, takes the lock or waits:
\* no sendText call with an invalid recipient is ever in flight past its
\* first step.
InvalidRecipientRejectedFirst ==
  \A c \in CallIds : call[c].op = "sendText" /\ call[c].pc # "done" => call[c].valid

\* C14: once the ApiKey has been deactivated no new socket construction is
\* started for the key by any path (getQr, sendText, warmSessions, a
\* reconnect timer firing); a socket that was live may keep running.
NoConstructionAfterDeactivation ==
  [][~ensureActiveKey => \A a \in ConnIds : conn[a].pc = "unused" => conn'[a].pc = "unused"]_vars

\* C15: warmSessions calls initializeSocket only for a session whose
\* persisted status is CONNECTED or DISCONNECTED and that has stored
\* credentials, and the socket construction it starts never synthesises
\* fresh credentials (never starts a new QR pairing): when the attempt it
\* awaits loads the auth state, the credentials are there and the status is
\* still CONNECTED or DISCONNECTED.
WarmNeverPairs ==
  [][\A c \in CallIds :
       /\ Starts(c, "warm") /\ call'[c].pc # "done"
            => row.status \in {"CONNECTED", "DISCONNECTED"} /\ row.creds # "null"
       /\ \A a \in ConnIds :
            /\ call[c].op = "warm" /\ call[c].awaiting = Chain(a)
            /\ conn[a].pc = "load" /\ conn'[a].pc = "make"
            => row.status \in {"CONNECTED", "DISCONNECTED"} /\ row.creds # "null"]_vars

\* C16: when socket construction throws during initializeSocket, then at
\* the moment the error is raised to the caller the persisted and the
\* in-memory status are ERROR, no QR-waiter is pending, the lock taken for
\* the attempt has been released (no row of this process, lock-held flag
\* false), and the error raised is the construction error.
ConstructFailureCleanedUp ==
  [][\A c \in CallIds, o \in ObjIds, p \in Procs :
       /\ call[c].pc = "await" /\ call[c].obj = o /\ call[c].proc = p
       /\ Rejected(call[c].awaiting)
       /\ call'[c].pc = "done"
       => /\ call'[c].res = Err("construct")
          /\ row'.status = "ERROR"
          /\ obj'[o].status = "ERROR"
          /\ obj'[o].qrWaiters = {}
          /\ ~obj'[o].lockHeld
          /\ ~\E r \in locks' : r.apiKey = SvcKey /\ r.ownerId = lockOwnerId(p)]_vars

\* C17: a session whose socket construction failed (status ERROR) is
\* recoverable: the next getQr starts a fresh construction attempt (it goes
\* on to take or refresh the lock and call createSocket) rather than
\* awaiting or failing on the earlier attempt, whether that attempt was
\* started by initializeSocket or by the reconnect timer.
ErrorIsRecoverable ==
  [][\A c \in CallIds, p \in Procs :
       Failed(p) /\ ~HasUser(obj[sessions[p]]) /\ Starts(c, "getQr") /\ call'[c].proc = p
         => call'[c].pc \in {"acq", "touchCreate"}]_vars

\* C18: a store operation that fails while a connection.update event or a
\* construction failure is handled is swallowed, and the rest of the
\* handling is still performed: a handled qr leaves no QR-waiter pending;
\* a handled loggedOut close leaves the in-memory status LOGGED_OUT, the
\* lock flag false, the ManagedSession removed and no waiter pending; a
\* handled construction failure leaves the in-memory status ERROR and no
\* QR-waiter pending.
StoreFailuresSwallowed ==
  [][\A a \in ConnIds, o \in ObjIds, p \in Procs :
       conn[a].obj = o /\ conn[a].proc = p
         => /\ conn[a].hQr = "run" /\ conn'[a].hQr # "run" => obj'[o].qrWaiters = {}
            /\ conn[a].hClose = "run" /\ conn'[a].hClose # "run" /\ conn[a].loggedOut
                 => /\ obj'[o].status = "LOGGED_OUT"
                    /\ ~obj'[o].lockHeld
                    /\ sessions'[p] # o
                    /\ obj'[o].qrWaiters = {} /\ obj'[o].connectionWaiters = {}
            /\ conn[a].pc = "failing" /\ conn'[a].pc # "failing"
                 => obj'[o].status = "ERROR" /\ obj'[o].qrWaiters = {}]_vars

----------------------------------------------------------------------------
\* Properties of the event bus

\* C19: when publishStatus or publishQr is called for an apiKey, every
\* client registered for that key whose transport is writable is written
\* the event and stays registered, every registered client whose transport
\* is not writable or whose write throws is removed and written nothing,
\* and no client registered under another key is written anything.
PublishReachesItsKey ==
  [][Len(sse'.log) = Len(sse.log) + 1 =>
       LET n == Len(sse'.log)
           pub == sse'.log[n]
       IN \A s \in Subs :
            IF s \in sse.clients[pub.key]
              THEN IF sse.sub[s].mode = "ok"
                     THEN /\ Len(sse'.sub[s].frames) = Len(sse.sub[s].frames) + 1
                          /\ SubSeq(sse'.sub[s].frames, 1, Len(sse.sub[s].frames)) = sse.sub[s].frames
                          /\ sse'.sub[s].frames[Len(sse'.sub[s].frames)].event = pub.event
                          /\ sse'.sub[s].frames[Len(sse'.sub[s].frames)].n = n
                          /\ s \in sse'.clients[pub.key]
                     ELSE /\ s \notin sse'.clients[pub.key]
                          /\ sse'.sub[s].frames = sse.sub[s].frames
              ELSE /\ sse'.sub[s].frames = sse.sub[s].frames
                   /\ \A k \in Keys : s \in sse'.clients[k] <=> s \in sse.clients[k]]_vars

\* the last publish was written to a registered client of its key while a
\* client is registered under the other key and was written no event
PublishedBesideOtherKey ==
  \E s, t \in Subs :
    /\ Len(sse.log) > 0
    /\ s \in sse.clients[sse.log[Len(sse.log)].key]
    /\ sse.sub[s].frames[Len(sse.sub[s].frames)].n = Len(sse.log)
    /\ \E k \in Keys : k # sse.log[Len(sse.log)].key /\ t \in sse.clients[k]
    /\ \A i \in 1..Len(sse.sub[t].frames) : sse.sub[t].frames[i].n = 0

\* the frames of a subscriber that are events (not comments)
eventsOf(s) ==
  SelectSeq(sse.sub[s].frames, LAMBDA f : f.event # "comment")

\* the events attachClient writes for the initial snapshot
initialOf(s) ==
  IF sse.sub[s].init = "qr"
    THEN <<Frame("status", 0, "initial"), Frame("qr", 0, QrPayload)>>
    ELSE IF sse.sub[s].init = "status" THEN <<Frame("status", 0, "initial")>> ELSE <<>>

----------------------------------------------------------------------------
\* Properties of the key registry

\* C21: assertActive(key) returns the stored record exactly when a row whose
\* key equals the trimmed input exists and is active; for an empty, missing
\* or deactivated key it fails with 'API key not registered' and nothing
\* else, so any two refusals are the same outcome.
AssertActiveUniform ==
  [][\A r \in ReqIds :
       req[r].kind = None /\ req'[r].kind = "assert" =>
         LET key == req'[r].input
             out == req'[r].auth
             match == {k \in apiKeys : key.core # "" /\ k.key = key.core /\ k.isActive}
         IN /\ out.ok <=> match # {}
            /\ out.ok => out.record \in match /\ out.error = None
            /\ ~out.ok => out.error = "API key not registered" /\ out.record = NoRecord
            /\ \A q \in ReqIds :
                 req'[q].kind = "assert" /\ ~req'[q].auth.ok /\ ~out.ok => req'[q].auth = out]_vars

\* one check refused a deactivated key and another a key that never existed
DeactivatedAndMissingRefused ==
  \E r, q \in ReqIds :
    /\ req[r].kind = "assert" /\ ~req[r].auth.ok
    /\ req[q].kind = "assert" /\ ~req[q].auth.ok
    /\ ApiKeyRow(req[r].input.core, FALSE) \in apiKeys
    /\ req[q].input.core # ""
    /\ \A k \in apiKeys : k.key # req[q].input.core

\* C22: generate calls repository.create at most five times; it is still
\* looping only while every create so far collided, returns the key of the
\* first create that succeeds, stops at the first create that fails for
\* another reason, and fails with the exhaustion error exactly when five
\* creates in a row collided.
GenerateRetriesOnlyCollisions ==
  \A r \in ReqIds :
    req[r].kind = "create" =>
      /\ req[r].creates <= GenerateAttempts
      /\ req[r].pc = "generate" => req[r].collisions = req[r].creates /\ req[r].creates < GenerateAttempts
      /\ req[r].pc = "done" /\ req[r].ops > 0 =>
           /\ req[r].res.status = 201 =>
                /\ req[r].creates = req[r].collisions + 1
                /\ \E k \in apiKeys : k.key = req[r].res.data.key
           /\ req[r].res.status # 201 =>
                IF req[r].collisions = GenerateAttempts
                  THEN /\ req[r].creates = GenerateAttempts
                       /\ req[r].res.message = "Unable to generate API key, please retry"
                  ELSE /\ req[r].creates = req[r].collisions + 1
                       /\ req[r].res.message = "create failed"

\* a create request ended in the exhaustion error after five collisions
GenerateExhausted ==
  \E r \in ReqIds :
    /\ req[r].kind = "create" /\ req[r].pc = "done"
    /\ req[r].collisions = GenerateAttempts
    /\ req[r].res.status = 500

\* C30: on each admin route (list, create, deactivate) the handler behind
\* withSecretGuard runs only when the x-secret-key header equals the
\* configured secret; with the header absent or different the answer is 403
\* 'Invalid secret key', no controller operation is invoked and the ApiKey
\* table is left as it was.
AdminNeedsSecret ==
  [][\A r \in ReqIds :
       req'[r] # req[r] /\ req'[r].kind \in {"list", "create", "deactivate"} =>
         IF req'[r].header = SecretKey
           THEN req'[r].res.status # 403
           ELSE /\ req'[r].pc = "done"
                /\ req'[r].res = Reply(403, "Invalid secret key", NoRecord)
                /\ req'[r].ops = 0
                /\ apiKeys' = apiKeys]_vars

\* a deactivate request without the header was answered 403 and the active
\* key it named is still active, and a create request with a wrong header
\* was answered 403 as well
AdminRefusedWithoutSecret ==
  \E r, q \in ReqIds :
    /\ req[r].kind = "deactivate" /\ req[r].header = None /\ req[r].res.status = 403
    /\ ~req[r].input.lead /\ ~req[r].input.trail
    /\ ApiKeyRow(req[r].input.core, TRUE) \in apiKeys
    /\ req[q].kind = "create" /\ req[q].header = "other" /\ req[q].res.status = 403

----------------------------------------------------------------------------
\* Properties of the lock repository operations

OnlyOwnRowsWritten ==
  [][(lockOp' = lockOp /\ now' = now) =>
       LET w == lastWrite'
           own == {r \in locks : r.ownerId = lockOwnerId(w.proc)}
           mine == {r \in own : r.apiKey = w.apiKey}
       IN /\ {r \in locks' : r.ownerId # lockOwnerId(w.proc)}
               = {r \in locks : r.ownerId # lockOwnerId(w.proc)}
          /\ CASE w.op = "touch" ->
                    locks' = (locks \ mine) \cup {LockRow(r.apiKey, r.ownerId, now) : r \in mine}
               [] w.op = "release" -> locks' = locks \ mine
               [] w.op = "releaseAll" -> locks' = locks \ own
               [] OTHER -> locks' = locks]_vars

\* a process released a key whose row belongs to another process, and after
\* it that row is still there
ReleaseByNonOwnerKeptRow ==
  /\ lastWrite.op = "release"
  /\ \E r \in locks : r.apiKey = lastWrite.apiKey /\ r.ownerId # lockOwnerId(lastWrite.proc)

----------------------------------------------------------------------------
\* Properties of the credential repository

SetKeysAllOrNothing ==
  [][/\ (store'.op.sessionId # 0 /\ ~store'.op.disturbed) =>
          RowsOf(store'.keys, store'.op.sessionId) \in {store'.op.before, store'.op.after}
     /\ (store'.calls # store.calls /\ store'.out.kind = "clear") =>
          LET s == store'.out.sessionId
          IN \/ RowsOf(store'.keys, s) = {} /\ store'.creds[s].t = "null"
             \/ store'.keys = store.keys /\ store'.creds = store.creds]_vars

\* C27: loadKeys returns one entry for each requested id and no other: the
\* value last written for (session, type, id), or null when none was
\* written or it was removed.
LoadKeysReturnsRequested ==
  [][(store'.calls # store.calls /\ store'.out.kind = "loadKeys") =>
       LET o == store'.out IN
         /\ DOMAIN o.keys = o.ids
         /\ \A id \in o.ids :
              LET w == {x \in store.written :
                          x.sessionId = o.sessionId /\ x.type = o.type /\ x.keyId = id}
              IN IF w = {} THEN o.keys[id].t = "null"
                 ELSE \A x \in w : IF x.value.t = "proto" THEN o.keys[id] = x.value
                                    ELSE StructEq(o.keys[id], x.value)]_vars

\* loadKeys returned a value for one id and null for the other, while the
\* other session holds a row of the same type and the second id.
LoadedOneOfTwoKeys ==
  /\ store.out.kind = "loadKeys"
  /\ store.out.ids = StoreKeyIds
  /\ store.out.keys["a"].t = "object"
  /\ store.out.keys["b"].t = "null"
  /\ \E r \in store.keys :
       r.sessionId # store.out.sessionId /\ r.type = store.out.type /\ r.keyId = "b"

----------------------------------------------------------------------------
\* Properties of the reconnect backoff

\* The base delays of attempts 1, 2, ... : doubling from one second, 30
\* seconds from the sixth on
BaseDelay(n) == IF n >= 6 THEN 30000 ELSE <<1000, 2000, 4000, 8000, 16000>>[n]

----------------------------------------------------------------------------
\* Properties of the shutdown

\* C29: when the process has exited after a signal, no lock row is owned by
\* it, no session of it has its lock-held flag set and no socket of it is
\* left open, whenever the signal came and whether or not server.stop failed.
ShutdownLeavesNothing ==
  \A p \in Procs :
    ~app[p].running =>
      /\ \A r \in locks : r.ownerId # lockOwnerId(p)
      /\ \A o \in ObjIds : obj[o].proc = p => ~obj[o].lockHeld
      /\ \A a \in ConnIds : conn[a].proc = p => conn[a].pc # "live"

----------------------------------------------------------------------------
\* Properties of the ApiKey records

\* C32: no step removes an ApiKey record or turns isActive from false to
\* true; a deactivate that finds no record answers null (404) and leaves the
\* table as it was, and a deactivate of an inactive key answers that
\* inactive record and leaves the table as it was.
ApiKeysOnlyDeactivated ==
  [][/\ \A r \in apiKeys : \E n \in apiKeys' : n.key = r.key /\ (n.isActive => r.isActive)
     /\ \A q \in ReqIds :
          (req[q].kind = None /\ req'[q].kind = "deactivate" /\ req'[q].ops = 1) =>
            LET hit == {r \in apiKeys : Plain(r.key) = req'[q].input}
            IN /\ hit = {} => req'[q].res.status = 404 /\ apiKeys' = apiKeys
               /\ \A r \in hit :
                    /\ req'[q].res.status = 200
                    /\ req'[q].res.data = ApiKeyRow(r.key, FALSE)
                    /\ ApiKeyRow(r.key, FALSE) \in apiKeys'
                    /\ ~r.isActive => apiKeys' = apiKeys]_vars

\* The same key was deactivated twice, both calls answering the inactive
\* record, beside a key that stayed active.
DeactivatedTwice ==
  /\ \A q \in ReqIds : req[q].kind = "deactivate" /\ req[q].res.status = 200
  /\ req["r1"].res.data = req["r2"].res.data
  /\ req["r1"].res.data \in apiKeys
  /\ \E r \in apiKeys : r.isActive

----------------------------------------------------------------------------
\* Properties of overlapping calls, attempts and handlers

\* C33: initializeSocket calls of one process that overlap share one
\* construction: no call constructs a socket while another call of the
\* process for the same session is inside initializeSocket awaiting an attempt.
OverlappingCallsShareAttempt ==
  [][\A d \in CallIds :
       (/\ call[d].pc \in {"acq", "touchCreate"}
        /\ \E a \in ConnIds : conn[a].pc = "unused" /\ conn'[a].kind = "init")
       => \A c \in CallIds \ {d} :
            ~(/\ call[c].proc = call[d].proc
              /\ call[c].obj = call[d].obj
              /\ call[c].pc \in {"await", "touchAwait"})]_vars

\* C34: a session's connectPromise is set exactly while one of its connect
\* attempts is in flight, whether initializeSocket or the reconnect timer
\* started it.
ConnectPromiseWhileInFlight ==
  \A o \in ObjIds : obj[o].proc # None => (obj[o].connectPromise # NoPromise <=> AttemptPending(o))

\* C35: the connection.update events of a socket are handled one at a time:
\* while the handler of one event of the socket has not finished, none of
\* its other events is being handled.
HandlersOneAtATime ==
  \A a \in ConnIds :
    Cardinality({h \in {"qr", "open", "close"} :
                   CASE h = "qr" -> conn[a].hQr = "run"
                     [] h = "open" -> conn[a].hOpen = "run"
                     [] OTHER -> conn[a].hClose = "run"}) <= 1

\* C36: in a process at most one reconnect timer of the key is armed at any
\* time, the timers of ManagedSessions no longer in the map included.
OneReconnectTimer ==
  \A p \in Procs : Cardinality({o \in ObjIds : obj[o].proc = p /\ obj[o].reconnectTimer}) <= 1

----------------------------------------------------------------------------
\* Properties of the subscribers' transports

\* C37: a publish to a key, and a heartbeat tick, each remove every
\* registered subscriber (of that key, of any key) whose transport is no
\* longer writable or throws, and write their frame to every other
\* registered subscriber.
DeadSubscribersRemoved ==
  [][/\ Len(sse'.log) > Len(sse.log) =>
          LET k == sse'.log[Len(sse'.log)].key IN
            \A s \in sse.clients[k] :
              IF sse.sub[s].mode = "ok"
                THEN s \in sse'.clients[k] /\ Len(sse'.sub[s].frames) = Len(sse.sub[s].frames) + 1
                ELSE s \notin sse'.clients[k]
     /\ sse'.beats > sse.beats =>
          \A k \in Keys : \A s \in sse.clients[k] :
            IF sse.sub[s].mode = "ok"
              THEN s \in sse'.clients[k] /\ Len(sse'.sub[s].frames) = Len(sse.sub[s].frames) + 1
              ELSE s \notin sse'.clients[k]]_vars

----------------------------------------------------------------------------
\* Properties of waiters, credential writes and status reports

\* C38: a pending QR-waiter leaves the waiter list of its session only in a
\* step that settles it (resolved by a qr event, rejected by a close, a
\* construction failure or its own timeout).
QrWaitersLeaveSettled ==
  [][\A c \in CallIds : \A o \in ObjIds :
       (call[c].pc = "waitQr" /\ c \in obj[o].qrWaiters /\ c \notin obj'[o].qrWaiters)
         => call'[c].pc # "waitQr"]_vars

\* C39: the persisted credential blob of a session is always empty or one
\* complete saved value, and once no saveCreds of the session is under way
\* it equals the credentials of the latest creds.update.
LatestCredsPersisted ==
  \A s \in Sids :
    /\ store.creds[s].t = "null" \/ \E c \in CredValues : store.creds[s] = toJsonValue(c)
    /\ (store.saved[s].t # "null" /\ \A w \in store.pending : w.sessionId # s)
         => StructEq(loadCreds(store.creds, s), store.saved[s])

\* C40: every result of getConnectionStatus has status CONNECTED exactly
\* when its connected flag is true.
StatusIffConnected ==
  \A c \in CallIds :
    (call[c].op = "status" /\ call[c].pc = "done" /\ call[c].res.ok)
      => (call[c].res.status = "CONNECTED" <=> call[c].res.connected)

----------------------------------------------------------------------------
\* Properties of the routes

\* the handler of a route answers call c in this step
Replies(c) == call[c].reply = NoAnswer /\ call'[c].reply # NoAnswer

\* C31: a route answers a failure of the Supervisor with the status of its
\* kind: 403 for an unregistered key, 404 for a missing session, 409 for a
\* send on a logged-out session, 423 with the other-instance message for a
\* send on a session locked elsewhere, 503 for a send that is not connected,
\* 500 'Internal server error' for anything else; and a failing stream
\* request registers no subscriber.
RoutesMapFailures ==
  [][\A c \in CallIds :
       (Replies(c) /\ ~call[c].res.ok)
         => LET e == call[c].res.error
                r == call'[c].reply
            IN /\ e = "403" => r.status = 403
               /\ e = "404" => r.status = 404
               /\ (r.route = "send" /\ e = "409") => r.status = 409
               /\ (r.route = "send" /\ e = "423")
                    => r.status = 423 /\ r.message = "Session is handled by another instance"
               /\ (r.route = "send" /\ e = "503") => r.status = 503
               /\ e \notin {"403", "404", "409", "423", "503"}
                    => r.status = 500 /\ r.message = "Internal server error"
               /\ r.route = "stream" => sse' = sse]_vars

====
